---- MODULE Spec2Model ----
(***************************************************************************)
(* Model of the api-builder of hlw-core-api: the generate workflow         *)
(* (api-builder/scripts/generate.script.ts), the clean workflow            *)
(* (api-builder/scripts/pre-generate.script.ts) and the patching of the    *)
(* aggregator file src/index.ts                                            *)
(* (api-builder/core/helpers/api-builder.helper.ts).                       *)
(*                                                                         *)
(* Text is modelled as sequences of tokens (a string is the concatenation  *)
(* of its tokens).  A line of the aggregator file is a record              *)
(*   [t, var, path]:                                                       *)
(*   t = "import" : the text   import <var> from "<path>";                 *)
(*   t = "use"    : the text     .use(<var>)                               *)
(*   t = "text"   : any other text (path holds what tells such lines apart)*)
(***************************************************************************)
EXTENDS Integers, Sequences, FiniteSets, TLC

VARIABLES
    index,      \* src/index.ts: [exists, lines]
    outDirs,    \* src/builder: [exists, dirs], dirs the {module, version} directories
    outFiles,   \* the module files written under src/builder
    jsonFiles,  \* per tool instance: what readdir of api-builder/json lists
    runsLeft,   \* per tool instance: invocations still to come
    mode,       \* per tool instance: "generate" or "clean" (the CLI flag)
    pc,         \* per tool instance: the pending file operation, "idle" or "done"
    k,          \* per tool instance: position of the for loop over jsonFiles
    buf,        \* per tool instance: local variables lines / toRemove of the running function
    exitCode,   \* per tool instance: exit code of the last invocation
    visited,    \* per tool instance: positions whose processJsonFile started in this run
    failure,    \* per tool instance: the file operation that rejected in this run
    runStart,   \* per tool instance: the files when the invocation started
    log,        \* completed invocations, oldest first
    lastUpsert, \* the last completed updateIndexFile call
    stale,      \* a writeFile replaced text that was not the text its caller had read
    request,    \* the request a generated handler is serving: [n, body], n the route
    payload,    \* the handler's payload object (the request body, mutated in place)
    whereConditions, \* the handler's whereConditions array
    queryParams,     \* the handler's queryParams object
    hpc,        \* the handler: "idle", "conditions", "called" or "threw"
    step,       \* the handler: the condition statement to run next
    call        \* the call the handler made: [fn, args]

toolVars == <<index, outDirs, outFiles, jsonFiles, runsLeft, mode, pc, k, buf,
              exitCode, visited, failure, runStart, log, lastUpsert, stale>>

handlerVars == <<request, payload, whereConditions, queryParams, hpc, step, call>>

vars == <<index, outDirs, outFiles, jsonFiles, runsLeft, mode, pc, k, buf,
          exitCode, visited, failure, runStart, log, lastUpsert, stale,
          request, payload, whereConditions, queryParams, hpc, step, call>>

-----------------------------------------------------------------------------
(* Bounds of the model *)

MaxLines == 2   \* lines of the aggregator file before the first invocation
MaxSpecs == 2   \* spec documents in api-builder/json
MaxRuns == 2    \* invocations of the tool by one instance, one after the other
MaxCleanLines == 4  \* lines of the aggregator file that clean alone is run on
MaxConcLines == 1   \* lines of the aggregator file that two instances are run on

Procs == {1, 2}

-----------------------------------------------------------------------------
(* Strings *)

Last(s) == s[Len(s)]

Range(s) == {s[i] : i \in DOMAIN s}

\* String.prototype.toUpperCase on one character
ToUpper(c) == CASE c = "v" -> "V" [] OTHER -> c

\* version.charAt(0).toUpperCase() + version.slice(1)
Capitalize(s) == IF s = <<>> THEN <<>> ELSE <<ToUpper(Head(s))>> \o Tail(s)

Modules == {<<"roles">>, <<"users">>}

\* handler.conditions of a route: absent, or the entries of the object in their
\* own order, each a field with the operator configured for it
NoConditions == [present |-> FALSE, rules |-> <<>>]
Conditions(rules) == [present |-> TRUE, rules |-> rules]

\* an optional member of a JSON object: absent, or present with a value
None == {}
Some(x) == {x}
Value(option) == CHOOSE x \in option : TRUE

\* a field of route.payload: its type, and the members optional, format,
\* description, minimum, maximum, minLength, maxLength, items where present
FieldSpec(type, optional, format, description, minimum, maximum, minLength, maxLength, items) ==
    [type |-> type, optional |-> optional, format |-> format,
     description |-> description, minimum |-> minimum, maximum |-> maximum,
     minLength |-> minLength, maxLength |-> maxLength, items |-> items]

StringField == FieldSpec("String", None, None, None, None, None, None, None, None)

\* a route path: its text cut into literal pieces and :name segments
Literal(text) == [param |-> FALSE, text |-> text]
Param(name) == [param |-> TRUE, text |-> name]

\* route.openapi
Openapi(summary, description, tags) ==
    [summary |-> summary, description |-> description, tags |-> tags]

\* a route of a spec document; fields is Object.entries(route.payload), the
\* query a sequence of tokens
RouteDefinition(name, path, method, openapi, fields, requestType, query, conditions) ==
    [name |-> name, path |-> path, method |-> method, openapi |-> openapi,
     payload |-> fields,
     handler |-> [requestType |-> requestType, query |-> query,
                  conditions |-> conditions]]

\* a POST route on a path without :name segments whose payload fields are
\* strings without constraints
Route(name, path, keys, requestType, query, conditions) ==
    RouteDefinition(name, <<Literal(path)>>, "POST",
                    Openapi("Find Role", "Retrieve a role", <<"Roles">>),
                    [n \in DOMAIN keys |-> [key |-> keys[n], config |-> StringField]],
                    requestType, query, conditions)

\* the first route of the roles spec document, as src/builder/roles/v1 shows it
findRoleById ==
    Route("findRoleById", "/", <<"id">>, "findOneById",
          <<"SELECT id FROM roles WHERE", "id = :id">>, NoConditions)

\* a spec document: json says whether JSON.parse accepts its text, lacks names
\* the members module, version, routes that the parsed value does not have
Document(module, version, routes) ==
    [json |-> TRUE, lacks |-> {}, module |-> module, version |-> version,
     routes |-> routes]

\* the route specs of the model: the parsed content of a spec document
AllSpecs ==
    {Document(<<"roles">>, <<"v", "1">>, <<findRoleById>>),
     Document(<<"roles">>, <<"V", "1">>, <<findRoleById>>),
     Document(<<"users">>, <<"v", "1">>, <<findRoleById>>)}

\* as generateRouteVariableName, the version as the spec document writes it
generateRouteVariableNameAsWritten(config) ==
    config.module \o config.version \o <<"Routes">>

generateRouteVariableName(config) ==
    config.module \o Capitalize(config.version) \o <<"Routes">>

ImportLine(v, p) == [t |-> "import", var |-> v, path |-> p]
UseLine(v) == [t |-> "use", var |-> v, path |-> <<>>]
TextLine(x) == [t |-> "text", var |-> <<>>, path |-> <<x>>]

\* as generateImportStatement, the import path naming the file with its extension
generateImportStatementWithExtension(config) ==
    LET variableName == config.module \o Capitalize(config.version) \o <<"Routes">>
        importPath == <<"./builder/">> \o config.module \o <<"/">> \o config.version
                      \o <<"/">> \o config.module \o <<"-">> \o config.version
                      \o <<".routes", ".ts">>
    IN  ImportLine(variableName, importPath)

generateImportStatement(config) ==
    LET variableName == config.module \o Capitalize(config.version) \o <<"Routes">>
        importPath == <<"./builder/">> \o config.module \o <<"/">> \o config.version
                      \o <<"/">> \o config.module \o <<"-">> \o config.version
                      \o <<".routes">>
    IN  ImportLine(variableName, importPath)

-----------------------------------------------------------------------------
(* parseIndexFile *)

\* /^import\s+(\w+)\s+from\s+["'](.+routes)["'];?$/ on the trimmed line
importMatch(line) ==
    /\ line.t = "import"
    /\ line.path # <<>>
    /\ Last(line.path) \in {".routes", "routes"}

\* /\.use\((\w+)\)/ on the trimmed line
useMatch(line) == line.t = "use"

Max(S) == IF S = {} THEN 0 ELSE CHOOSE x \in S : \A y \in S : y <= x

Indices(lines, Test(_)) ==
    SelectSeq([i \in 1..Len(lines) |-> i], LAMBDA i : Test(lines[i]))

\* as parseIndexFile, lastImportLine being the line of the first import found
parseIndexFileFirstImport(lines) ==
    LET imps == Indices(lines, importMatch)
        uses == Indices(lines, useMatch)
    IN  [content |-> lines,
         imports |-> [n \in 1..Len(imps) |->
                        [variableName |-> lines[imps[n]].var,
                         importPath |-> lines[imps[n]].path,
                         lineNumber |-> imps[n]]],
         routeUses |-> [n \in 1..Len(uses) |->
                        [variableName |-> lines[uses[n]].var,
                         lineNumber |-> uses[n]]],
         lastImportLine |-> IF imps = <<>> THEN 0 ELSE imps[1],
         lastRouteUseLine |-> Max(Range(uses))]

parseIndexFile(lines) ==
    LET imps == Indices(lines, importMatch)
        uses == Indices(lines, useMatch)
    IN  [content |-> lines,
         imports |-> [n \in 1..Len(imps) |->
                        [variableName |-> lines[imps[n]].var,
                         importPath |-> lines[imps[n]].path,
                         lineNumber |-> imps[n]]],
         routeUses |-> [n \in 1..Len(uses) |->
                        [variableName |-> lines[uses[n]].var,
                         lineNumber |-> uses[n]]],
         lastImportLine |-> Max(Range(imps)),
         lastRouteUseLine |-> Max(Range(uses))]

parseIndexFileFromContent(lines) ==
    LET imps == Indices(lines, importMatch)
        uses == Indices(lines, useMatch)
    IN  [content |-> lines,
         imports |-> [n \in 1..Len(imps) |->
                        [variableName |-> lines[imps[n]].var,
                         importPath |-> lines[imps[n]].path,
                         lineNumber |-> imps[n]]],
         routeUses |-> [n \in 1..Len(uses) |->
                        [variableName |-> lines[uses[n]].var,
                         lineNumber |-> uses[n]]],
         lastImportLine |-> Max(Range(imps)),
         lastRouteUseLine |-> Max(Range(uses))]

-----------------------------------------------------------------------------
(* updateIndexFile: the computation between readFile and writeFile *)

Min2(a, b) == IF a < b THEN a ELSE b

\* lines.splice(at, 1, line): as spliceInsert, with a delete count of 1
spliceInsertOverwrite(lines, at, line) ==
    LET a == Min2(at, Len(lines))
    IN  SubSeq(lines, 1, a) \o <<line>> \o SubSeq(lines, a + 2, Len(lines))

\* lines.splice(at, 0, line), at counted from 0
spliceInsert(lines, at, line) ==
    LET a == Min2(at, Len(lines))
    IN  SubSeq(lines, 1, a) \o <<line>> \o SubSeq(lines, a + 1, Len(lines))

\* lines.splice(at, 1), at counted from 0
spliceRemove(lines, at) ==
    IF at >= Len(lines) THEN lines
    ELSE SubSeq(lines, 1, at) \o SubSeq(lines, at + 2, Len(lines))

\* lines[i].includes('.use(') && lines[i].includes('Routes')
isUseOfRoutes(line) == line.t = "use" /\ "Routes" \in Range(line.var)

\* as useInsertIndex, the place after the last line that has .use( at all
useInsertIndexAnyUse(lines) ==
    LET hits == {i \in 1..Len(lines) : lines[i].t = "use"}
    IN  IF hits = {} THEN -1 ELSE Max(hits)

\* the loop that leaves in useInsertIndex the place after the last such line, or -1
useInsertIndex(lines) ==
    LET hits == {i \in 1..Len(lines) : isUseOfRoutes(lines[i])}
    IN  IF hits = {} THEN -1 ELSE Max(hits)

\* as importExists, comparing the import path with the variable name
importExistsByPath(indexInfo, variableName) ==
    \E n \in DOMAIN indexInfo.imports : indexInfo.imports[n].importPath = variableName

\* indexInfo.imports.some(imp => imp.variableName === variableName)
importExists(indexInfo, variableName) ==
    \E n \in DOMAIN indexInfo.imports : indexInfo.imports[n].variableName = variableName

\* as useExists, looking at the last registration only
useExistsLast(indexInfo, variableName) ==
    /\ indexInfo.routeUses # <<>>
    /\ Last(indexInfo.routeUses).variableName = variableName

\* indexInfo.routeUses.some(use => use.variableName === variableName)
useExists(indexInfo, variableName) ==
    \E n \in DOMAIN indexInfo.routeUses :
        indexInfo.routeUses[n].variableName = variableName

updateIndexFile(content, config) ==
    LET indexInfo == parseIndexFile(content)
        variableName == generateRouteVariableName(config)
        importStatement == generateImportStatement(config)
        hasImport == importExists(indexInfo, variableName)
        hasUse == useExists(indexInfo, variableName)
        lines1 == IF hasImport THEN content
                  ELSE spliceInsert(content, indexInfo.lastImportLine, importStatement)
        at == useInsertIndex(lines1)
        addedUse == ~hasUse /\ at > -1
        lines2 == IF addedUse THEN spliceInsert(lines1, at, UseLine(variableName))
                  ELSE lines1
    IN  IF hasImport /\ hasUse
        THEN [lines |-> content, addedImport |-> FALSE, addedUse |-> FALSE]
        ELSE [lines |-> lines2, addedImport |-> ~hasImport, addedUse |-> addedUse]

-----------------------------------------------------------------------------
(* cleanupIndexFile: the computation between readFile and writeFile *)

\* imp.importPath.includes('./builder/') || imp.importPath.includes('/builder/')
isBuilderPath(importPath) ==
    \/ \E tok \in Range(importPath) : tok = "./builder/"
    \/ \E tok \in Range(importPath) : tok \in {"/builder/", "./builder/"}

RECURSIVE sortDescending(_)
\* .sort((a, b) => b - a)
sortDescending(s) ==
    IF s = <<>> THEN <<>>
    ELSE LET m == Max(Range(s))
             i == CHOOSE j \in DOMAIN s : s[j] = m
         IN  <<m>> \o sortDescending(SubSeq(s, 1, i - 1) \o SubSeq(s, i + 1, Len(s)))

RECURSIVE removeLines(_, _)
\* for (const lineIndex of toRemove) lines.splice(lineIndex, 1)
removeLines(lines, toRemove) ==
    IF toRemove = <<>> THEN lines
    ELSE removeLines(spliceRemove(lines, Head(toRemove)), Tail(toRemove))

builderImportsOf(indexInfo) ==
    SelectSeq(indexInfo.imports, LAMBDA imp : isBuilderPath(imp.importPath))

\* as builderRoutesOf, matching a registration's variable with the import paths
builderRoutesByPath(indexInfo) ==
    LET builderImports == builderImportsOf(indexInfo)
    IN  SelectSeq(indexInfo.routeUses,
                  LAMBDA use : \E n \in DOMAIN builderImports :
                                  builderImports[n].importPath = use.variableName)

builderRoutesOf(indexInfo) ==
    LET builderImports == builderImportsOf(indexInfo)
    IN  SelectSeq(indexInfo.routeUses,
                  LAMBDA use : \E n \in DOMAIN builderImports :
                                  builderImports[n].variableName = use.variableName)

\* as routeLinesToRemove, with the line numbers of the first parse
routeLinesToRemoveStale(updatedContent, builderRoutes) ==
    sortDescending([n \in 1..Len(builderRoutes) |-> builderRoutes[n].lineNumber - 1])

\* the line indices of the registrations to remove, taken from the re-parsed text
routeLinesToRemove(updatedContent, builderRoutes) ==
    LET updatedIndexInfo == parseIndexFileFromContent(updatedContent)
        hit == SelectSeq(updatedIndexInfo.routeUses,
                         LAMBDA use : \E n \in DOMAIN builderRoutes :
                                         builderRoutes[n].variableName = use.variableName)
    IN  sortDescending([n \in 1..Len(hit) |-> hit[n].lineNumber - 1])

\* as cleanupIndexFile, the content written back whether or not a line was
\* removed
cleanupIndexFileRewrites(content) ==
    LET indexInfo == parseIndexFile(content)
        builderImports == builderImportsOf(indexInfo)
        builderRoutes == builderRoutesOf(indexInfo)
        importLinesToRemove ==
            sortDescending([n \in 1..Len(builderImports) |->
                              builderImports[n].lineNumber - 1])
        updatedContent == removeLines(content, importLinesToRemove)
        cleanedContent ==
            removeLines(updatedContent, routeLinesToRemove(updatedContent, builderRoutes))
    IN  [lines |-> cleanedContent, wrote |-> TRUE]

cleanupIndexFile(content) ==
    LET indexInfo == parseIndexFile(content)
        builderImports == builderImportsOf(indexInfo)
        builderRoutes == builderRoutesOf(indexInfo)
        importLinesToRemove ==
            sortDescending([n \in 1..Len(builderImports) |->
                              builderImports[n].lineNumber - 1])
        updatedContent == removeLines(content, importLinesToRemove)
        cleanedContent ==
            removeLines(updatedContent, routeLinesToRemove(updatedContent, builderRoutes))
    IN  IF Len(builderImports) = 0 /\ Len(builderRoutes) = 0
        THEN [lines |-> content, wrote |-> FALSE]
        ELSE [lines |-> cleanedContent, wrote |-> TRUE]

-----------------------------------------------------------------------------
(* The files *)

NoSpec == Document(<<>>, <<>>, <<>>)

authRoutes == <<"auth", "Routes">>

\* the lines an aggregator file is made of before the tool first runs
LineAlphabet ==
    {TextLine("const app = new Elysia()"),
     ImportLine(<<"openapi">>, <<"@elysiajs/openapi">>),
     ImportLine(authRoutes, <<"./core/auth/auth", ".routes">>),
     UseLine(authRoutes)}
    \cup {generateImportStatement(c) : c \in AllSpecs}
    \cup {UseLine(generateRouteVariableName(c)) : c \in AllSpecs}

SeqsUpTo(S, n) == UNION {[1..m -> S] : m \in 0..n}

\* the listings of api-builder/json: spec documents, each (module, version) once
Batches ==
    {b \in SeqsUpTo(AllSpecs, MaxSpecs) : \A i, j \in DOMAIN b : i # j => b[i] # b[j]}

\* the template token of a findOne query
DynamicConditionsToken == "{dynamic_conditions}"

\* String.prototype.includes on the query, for the template token
includes(query, token) == \E i \in DOMAIN query : query[i] = token

\* String.prototype.replace with a string pattern: the first occurrence only
replace(query, token, by) ==
    IF ~includes(query, token) THEN query
    ELSE LET first == CHOOSE i \in DOMAIN query :
                          /\ query[i] = token
                          /\ \A j \in 1..(i - 1) : query[j] # token
         IN  [i \in DOMAIN query |-> IF i = first THEN by ELSE query[i]]

\* the operators generateConditionLogic has a case for
KnownOperators == {"=", "IN", "IS NULL", "IS NOT NULL", "LIKE", "ILIKE",
                   ">=", "<=", ">", "<"}

\* generateConditionLogic: the emitted if statement of one condition: the test on
\* payload[field], the fragment pushed to whereConditions, what it binds in
\* queryParams and whether it deletes payload[field]
generateConditionLogic(field, operator) ==
    CASE operator = "IN" ->
             [field |-> field, test |-> "nonEmptyArray", fragment |-> "IN",
              binds |-> "each", deletes |-> TRUE]
      [] operator = "IS NULL" ->
             [field |-> field, test |-> "isNull", fragment |-> "IS NULL",
              binds |-> "none", deletes |-> TRUE]
      [] operator = "IS NOT NULL" ->
             [field |-> field, test |-> "isNotNullSentinel", fragment |-> "IS NOT NULL",
              binds |-> "none", deletes |-> TRUE]
      [] operator \in {"LIKE", "ILIKE"} ->
             [field |-> field, test |-> "given", fragment |-> operator,
              binds |-> "wrapped", deletes |-> TRUE]
      [] operator \in {">=", "<=", ">", "<"} ->
             [field |-> field, test |-> "given", fragment |-> operator,
              binds |-> "none", deletes |-> FALSE]
      [] OTHER ->
             [field |-> field, test |-> "given", fragment |-> "=",
              binds |-> "none", deletes |-> FALSE]

\* generateDynamicQueryLogic: the statements of a findOne handler that build
\* payload and query: the query as it is, or the condition statements and the
\* query with the template token replaced
generateDynamicQueryLogic(route) ==
    LET baseQuery == route.handler.query
        conditions == route.handler.conditions
    IN  IF ~conditions.present \/ ~includes(baseQuery, DynamicConditionsToken)
        THEN [dynamic |-> FALSE, conditions |-> <<>>,
              query |-> baseQuery]
        ELSE [dynamic |-> TRUE,
              conditions |-> [n \in DOMAIN conditions.rules |->
                                 generateConditionLogic(conditions.rules[n].field,
                                                        conditions.rules[n].operator)],
              query |-> replace(baseQuery, DynamicConditionsToken, "${dynamicWhere}")]

\* the handler of a route that is not a findOne route
NoLogic == [dynamic |-> FALSE, conditions |-> <<>>, query |-> <<>>]

\* Array.prototype.join on strings
RECURSIVE join(_, _)
join(strings, separator) ==
    IF strings = <<>> THEN ""
    ELSE IF Len(strings) = 1 THEN strings[1]
    ELSE strings[1] \o separator \o join(Tail(strings), separator)

\* Array.prototype.join where the text is kept as tokens
RECURSIVE joinTokens(_, _)
joinTokens(strings, separator) ==
    IF strings = <<>> THEN <<>>
    ELSE IF Len(strings) = 1 THEN <<strings[1]>>
    ELSE <<strings[1]>> \o separator \o joinTokens(Tail(strings), separator)

\* as truthy, the empty string taken as the other strings
truthyOrEmpty(option) == option # None

\* if (config.format), if (config.description): present and not the empty string
truthy(option) == option # None /\ Value(option) # ""

isArrayType(type) == type = "Array"

\* getElysiaTypeMethod
getElysiaTypeMethod(type, config) ==
    CASE type = "String" -> "t.String"
      [] type = "Number" -> "t.Number"
      [] type = "Boolean" -> "t.Boolean"
      [] type = "Array" ->
             "t.Array(" \o (IF truthy(config.items) THEN Value(config.items)
                                                   ELSE "t.String()") \o ")"
      [] type = "Object" -> "t.Object"
      [] OTHER -> "t.String"

\* generateTypeOptions: the options pushed, in the order of the if statements,
\* and the text returned
generateTypeOptions(config) ==
    LET options ==
            (IF truthy(config.format)
             THEN <<"format: \"" \o Value(config.format) \o "\"">> ELSE <<>>)
         \o (IF truthy(config.description)
             THEN <<"description: \"" \o Value(config.description) \o "\"">> ELSE <<>>)
         \o (IF config.minimum # None
             THEN <<"minimum: " \o ToString(Value(config.minimum))>> ELSE <<>>)
         \o (IF config.maximum # None
             THEN <<"maximum: " \o ToString(Value(config.maximum))>> ELSE <<>>)
         \o (IF config.minLength # None
             THEN <<"minLength: " \o ToString(Value(config.minLength))>> ELSE <<>>)
         \o (IF config.maxLength # None
             THEN <<"maxLength: " \o ToString(Value(config.maxLength))>> ELSE <<>>)
    IN  [options |-> options,
         text |-> IF Len(options) = 0 THEN "{}"
                  ELSE "{\n        " \o join(options, ",\n        ") \o "\n      }"]

\* generateSchemaConstant: const {name}PayloadSchema = t.Object({ members }), a
\* member being key: type(options), or key: t.Array(items), wrapped in
\* t.Optional( ) or not
generateSchemaConstant(route) ==
    [name |-> <<route.name, "PayloadSchema">>,
     members |->
        [n \in DOMAIN route.payload |->
            LET config == route.payload[n].config
                typeMethod == getElysiaTypeMethod(config.type, config)
                options == generateTypeOptions(config)
            IN  [key |-> route.payload[n].key,
                 wrapped |-> config.optional = Some(TRUE),
                 type |-> typeMethod,
                 options |-> IF isArrayType(config.type) THEN <<>> ELSE options.options,
                 argument |-> IF isArrayType(config.type) THEN "" ELSE options.text]]]

\* detailSection of generateRouteMethod: the text of the detail block, as tokens
detailSection(route) ==
    [summary |-> <<"\"", route.openapi.summary, "\"">>,
     description |-> <<"\"", route.openapi.description, "\"">>,
     tags |-> <<"[", "\"">> \o joinTokens(route.openapi.tags, <<"\"", ", ", "\"">>)
                  \o <<"\"", "]">>]

\* path.match(/:([a-zA-Z_][a-zA-Z0-9_]*)/g), each match without its colon
extractPathParams(path) ==
    LET matches == SelectSeq(path, LAMBDA piece : piece.param)
    IN  [n \in DOMAIN matches |-> matches[n].text]

\* String.prototype.toLowerCase on the name of an HTTP method
toLowerCase(method) ==
    CASE method = "GET" -> "get"
      [] method = "POST" -> "post"
      [] method = "PUT" -> "put"
      [] method = "DELETE" -> "delete"
      [] OTHER -> method

\* an argument of the emitted service call: a variable, or a member of one
Variable(name) == [object |-> name, member |-> ""]
Member(object, name) == [object |-> object, member |-> name]

\* param.charAt(0).toUpperCase() + param.slice(1) on the names of path parameters
capitalizeParam(param) ==
    CASE param = "id" -> "Id"
      [] param = "slug" -> "Slug"
      [] OTHER -> param

\* generateParamsValidation: params: t.Object({ members }), the member id with
\* format uuid and the description "Id ID", any other with its capitalised name
\* as description
generateParamsValidation(pathParams) ==
    [n \in DOMAIN pathParams |->
        IF pathParams[n] = "id"
        THEN [key |-> pathParams[n], format |-> Some("uuid"),
              description |-> Some(capitalizeParam(pathParams[n]) \o " ID")]
        ELSE [key |-> pathParams[n], format |-> None,
              description |-> Some(capitalizeParam(pathParams[n]))]]

\* as generateRouteMethod, the options of the handler holding a params schema
\* for the :name segments of the path
generateRouteMethodWithParams(route) ==
    LET schemaName == <<route.name, "PayloadSchema">>
        bodyParams == [n \in DOMAIN route.payload |-> route.payload[n].key]
        bodyDestructuring == IF Len(bodyParams) > 0 THEN "{ body }" ELSE "{}"
        hook == [body |-> schemaName, detail |-> detailSection(route),
                 params |-> generateParamsValidation(extractPathParams(route.path))]
    IN  IF route.handler.requestType = "findOne"
        THEN [verb |-> "post", path |-> route.path, args |-> bodyDestructuring,
              logic |-> generateDynamicQueryLogic(route),
              call |-> "findOne",
              callArgs |-> <<Variable("payload"), Variable("query")>>,
              callQuery |-> <<>>, hook |-> hook]
        ELSE [verb |-> "post", path |-> route.path, args |-> bodyDestructuring,
              logic |-> NoLogic,
              call |-> "findOneById",
              callArgs |-> IF Len(bodyParams) > 0
                           THEN <<Member("body", bodyParams[1]), Variable("query")>>
                           ELSE <<Variable("query")>>,
              callQuery |-> route.handler.query, hook |-> hook]

\* as generateRouteMethod, a findOneById route registered under route.method,
\* the handler passing the path parameters
generateRouteMethodByPath(route) ==
    LET schemaName == <<route.name, "PayloadSchema">>
        bodyParams == [n \in DOMAIN route.payload |-> route.payload[n].key]
        bodyDestructuring == IF Len(bodyParams) > 0 THEN "{ body }" ELSE "{}"
        pathParams == extractPathParams(route.path)
        hook == [body |-> schemaName, detail |-> detailSection(route)]
    IN  IF route.handler.requestType = "findOne"
        THEN [verb |-> "post", path |-> route.path, args |-> bodyDestructuring,
              logic |-> generateDynamicQueryLogic(route),
              call |-> "findOne",
              callArgs |-> <<Variable("payload"), Variable("query")>>,
              callQuery |-> <<>>, hook |-> hook]
        ELSE [verb |-> toLowerCase(route.method), path |-> route.path,
              args |-> "{ params }",
              logic |-> NoLogic,
              call |-> "findOneById",
              callArgs |-> [n \in DOMAIN pathParams |-> Variable(pathParams[n])]
                               \o <<Variable("query")>>,
              callQuery |-> route.handler.query, hook |-> hook]

\* generateRouteMethod: the .post(...) registration of one route
generateRouteMethod(route) ==
    LET schemaName == <<route.name, "PayloadSchema">>
        bodyParams == [n \in DOMAIN route.payload |-> route.payload[n].key]
        bodyDestructuring == IF Len(bodyParams) > 0 THEN "{ body }" ELSE "{}"
        hook == [body |-> schemaName, detail |-> detailSection(route)]
    IN  IF route.handler.requestType = "findOne"
        THEN [verb |-> "post", path |-> route.path, args |-> bodyDestructuring,
              logic |-> generateDynamicQueryLogic(route),
              call |-> "findOne",
              callArgs |-> <<Variable("payload"), Variable("query")>>,
              callQuery |-> <<>>, hook |-> hook]
        ELSE [verb |-> "post", path |-> route.path, args |-> bodyDestructuring,
              logic |-> NoLogic,
              call |-> "findOneById",
              callArgs |-> IF Len(bodyParams) > 0
                           THEN <<Member("body", bodyParams[1]), Variable("query")>>
                           ELSE <<Variable("query")>>,
              callQuery |-> route.handler.query, hook |-> hook]

\* generateRouteFile: the module text, of which the model keeps the exported name,
\* the route prefix, the schema constants and the route registrations
generateRouteFile(config) ==
    LET className == config.module \o Capitalize(config.version) \o <<"Routes">>
        prefix == <<"/">> \o config.module \o <<"/">> \o config.version
        schemaConstants == [n \in DOMAIN config.routes |->
                               generateSchemaConstant(config.routes[n])]
        routeDefinitions == [n \in DOMAIN config.routes |->
                                generateRouteMethod(config.routes[n])]
    IN  [module |-> config.module, version |-> config.version,
         className |-> className, prefix |-> prefix,
         schemas |-> schemaConstants, routes |-> routeDefinitions]

\* outputPath of processJsonFile, as its segments below the working directory:
\* src/builder/{module}/{version}/{module}-{version}.routes.ts
outputPath(config) ==
    <<<<"src">>, <<"builder">>, config.module, config.version,
      config.module \o <<"-">> \o config.version \o <<".routes", ".ts">>>>

\* the module file processJsonFile writes for a spec
moduleFile(config) == [path |-> outputPath(config), text |-> generateRouteFile(config)]

\* as writeModuleFile, the file left unwritten
writeModuleFileLater(files, file) == files

\* writeFile(outputPath, tsContent): the file at outputPath is replaced
writeModuleFile(files, file) ==
    {f \in files : f.path # file.path} \cup {file}

\* readdir(builderDir): the entries directly under src/builder
builderItems(dirs) == {d.module : d \in dirs}

-----------------------------------------------------------------------------
(* A generated handler serves a request *)

\* the values of a request body's members
Undefined == [type |-> "undefined", s |-> "", items |-> <<>>]
Null == [type |-> "null", s |-> "", items |-> <<>>]
Str(s) == [type |-> "string", s |-> s, items |-> <<>>]
Arr(items) == [type |-> "array", s |-> "", items |-> items]

\* {}
EmptyObject == [key \in {} |-> Undefined]

\* object.key
get(object, key) == IF key \in DOMAIN object THEN object[key] ELSE Undefined

\* delete object.key
delete(object, key) == [x \in DOMAIN object \ {key} |-> object[x]]

\* object[key] = value
set(object, key, value) ==
    [x \in DOMAIN object \cup {key} |-> IF x = key THEN value ELSE object[x]]

\* Object.assign(target, source)
assign(target, source) ==
    [x \in DOMAIN target \cup DOMAIN source |->
        IF x \in DOMAIN source THEN source[x] ELSE target[x]]

\* `${value}` of a string or of an array of strings
text(value) == IF value.type = "array" THEN join(value.items, ",") ELSE value.s

\* `${field}_${index}`, index counting from 0
indexed(field, i) == field \o "_" \o ToString(i)

\* the test of an emitted if statement, on payload[field]
guard(test, value) ==
    CASE test = "nonEmptyArray" -> value.type = "array" /\ Len(value.items) > 0
      [] test = "isNull" -> value.type = "null"
      [] test = "isNotNullSentinel" -> value = Str("NOT_NULL")
      [] OTHER -> value.type \notin {"undefined", "null"}

\* the text an emitted if statement pushes to whereConditions
fragment(statement, value) ==
    CASE statement.fragment = "IN" ->
             statement.field \o " IN ("
                 \o join([i \in DOMAIN value.items |->
                              ":" \o indexed(statement.field, i - 1)], ", ")
                 \o ")"
      [] statement.fragment \in {"IS NULL", "IS NOT NULL"} ->
             statement.field \o " " \o statement.fragment
      [] OTHER ->
             statement.field \o " " \o statement.fragment \o " :" \o statement.field

\* value.forEach((value, index) => queryParams[`${field}_${index}`] = value)
RECURSIVE forEach(_, _, _, _)
forEach(params, field, items, i) ==
    IF i > Len(items) THEN params
    ELSE forEach(set(params, indexed(field, i - 1), Str(items[i])),
                 field, items, i + 1)

\* what an emitted if statement assigns in queryParams
bind(statement, value, params) ==
    CASE statement.binds = "each" -> forEach(params, statement.field, value.items, 1)
      [] statement.binds = "wrapped" ->
             set(params, statement.field, Str("%" \o text(value) \o "%"))
      [] OTHER -> params

\* as runCondition, the fragment put in front of whereConditions
runConditionUnshift(statement, state) ==
    LET value == get(state.payload, statement.field)
    IN  IF ~guard(statement.test, value) THEN state
        ELSE [whereConditions |->
                  <<fragment(statement, value)>> \o state.whereConditions,
              queryParams |-> bind(statement, value, state.queryParams),
              payload |-> IF statement.deletes
                          THEN delete(state.payload, statement.field)
                          ELSE state.payload]

\* an emitted if statement runs on the handler's payload, whereConditions and
\* queryParams
runCondition(statement, state) ==
    LET value == get(state.payload, statement.field)
    IN  IF ~guard(statement.test, value) THEN state
        ELSE [whereConditions |->
                  Append(state.whereConditions, fragment(statement, value)),
              queryParams |-> bind(statement, value, state.queryParams),
              payload |-> IF statement.deletes
                          THEN delete(state.payload, statement.field)
                          ELSE state.payload]

\* as dynamicWhere, the fragments joined whether or not there are any
dynamicWhereJoined(conditions) == join(conditions, " AND ")

\* whereConditions.length > 0 ? whereConditions.join(' AND ') : '1=1'
dynamicWhere(conditions) ==
    IF Len(conditions) > 0 THEN join(conditions, " AND ") ELSE "1=1"

\* the template literal of the emitted query, ${dynamicWhere} filled in
interpolate(query, where) ==
    [i \in DOMAIN query |-> IF query[i] = "${dynamicWhere}" THEN where ELSE query[i]]

\* the arguments of a service call
ObjectArg(object) == [kind |-> "object", object |-> object, value |-> Undefined,
                      text |-> <<>>]
ValueArg(value) == [kind |-> "value", object |-> EmptyObject, value |-> value,
                    text |-> <<>>]
TextArg(query) == [kind |-> "text", object |-> EmptyObject, value |-> Undefined,
                   text |-> query]

NoCall == [fn |-> "none", args |-> <<>>]

NoRequest == [path |-> <<>>, n |-> 0, body |-> EmptyObject]

\* the registration that serves a request
handler(r) == (CHOOSE f \in outFiles : f.path = r.path).text.routes[r.n]

InitHandler ==
    /\ request = NoRequest
    /\ payload = EmptyObject
    /\ whereConditions = <<>>
    /\ queryParams = EmptyObject
    /\ hpc = "idle"
    /\ step = 0
    /\ call = NoCall

\* a request reaches route n of a generated module with a body: the handler runs
\* up to its condition statements, or to its service call
Request(f, n, body) ==
    /\ hpc \in {"idle", "called", "threw"}
    /\ f \in outFiles
    /\ n \in DOMAIN f.text.routes
    /\ request' = [path |-> f.path, n |-> n, body |-> body]
    /\ whereConditions' = <<>>
    /\ queryParams' = EmptyObject
    /\ LET r == f.text.routes[n]
       IN  IF r.call = "findOneById"
           THEN /\ payload' = EmptyObject
                /\ step' = 0
                /\ hpc' = "called"
                /\ call' = [fn |-> "findOneById",
                            args |-> [i \in DOMAIN r.callArgs |->
                                         IF r.callArgs[i].object = "body"
                                         THEN ValueArg(get(body, r.callArgs[i].member))
                                         ELSE TextArg(r.callQuery)]]
           ELSE IF r.args = "{}"
           THEN \* const payload = body, and no body in scope
                /\ payload' = EmptyObject
                /\ step' = 0
                /\ hpc' = "threw"
                /\ call' = NoCall
           ELSE IF ~r.logic.dynamic
           THEN /\ payload' = body
                /\ step' = 0
                /\ hpc' = "called"
                /\ call' = [fn |-> "findOne",
                            args |-> <<ObjectArg(body), TextArg(r.logic.query)>>]
           ELSE /\ payload' = body
                /\ step' = 1
                /\ hpc' = "conditions"
                /\ call' = NoCall
    /\ UNCHANGED toolVars

\* the next emitted if statement runs
Condition ==
    /\ hpc = "conditions"
    /\ step <= Len(handler(request).logic.conditions)
    /\ LET after == runCondition(handler(request).logic.conditions[step],
                                 [payload |-> payload,
                                  whereConditions |-> whereConditions,
                                  queryParams |-> queryParams])
       IN  /\ payload' = after.payload
           /\ whereConditions' = after.whereConditions
           /\ queryParams' = after.queryParams
    /\ step' = step + 1
    /\ UNCHANGED <<request, hpc, call>>
    /\ UNCHANGED toolVars

\* the conditions are combined, the parameters merged and findOne called
Combine ==
    /\ hpc = "conditions"
    /\ step > Len(handler(request).logic.conditions)
    /\ payload' = assign(payload, queryParams)
    /\ call' = [fn |-> "findOne",
                args |-> <<ObjectArg(payload'),
                           TextArg(interpolate(handler(request).logic.query,
                                               dynamicWhere(whereConditions)))>>]
    /\ hpc' = "called"
    /\ UNCHANGED <<request, whereConditions, queryParams, step>>
    /\ UNCHANGED toolVars

-----------------------------------------------------------------------------
(* findOne of core/services/find.service.ts validates its inputs *)

\* \w of the regular expressions: a-z, A-Z, 0-9 and _
WordCharacters ==
    {"a", "b", "c", "d", "e", "f", "g", "h", "i", "j", "k", "l", "m",
     "n", "o", "p", "q", "r", "s", "t", "u", "v", "w", "x", "y", "z"}
    \cup {"A", "B", "C", "D", "E", "F", "G", "H", "I", "J", "K", "L",
          "M", "N", "O", "P", "Q", "R", "S", "T", "U", "V", "W", "X",
          "Y", "Z"}
    \cup {"0", "1", "2", "3", "4", "5", "6", "7", "8", "9"}
    \cup {"_"}

\* \s of the regular expressions
Whitespace == {" ", "\t", "\n", "\r"}

\* string.charAt(i - 1)
charAt(string, i) == IF i \in 1..Len(string) THEN SubSeq(string, i, i) ELSE ""

\* String.prototype.toLowerCase, and the i flag of a regular expression
lowerCase(c) ==
    LET upper == <<"A", "B", "C", "D", "E", "F", "G", "H", "I", "J", "K",
                   "L", "M", "N", "O", "P", "Q", "R", "S", "T", "U", "V",
                   "W", "X", "Y", "Z">>
        lower == <<"a", "b", "c", "d", "e", "f", "g", "h", "i", "j", "k",
                   "l", "m", "n", "o", "p", "q", "r", "s", "t", "u", "v",
                   "w", "x", "y", "z">>
    IN  IF \E i \in DOMAIN upper : upper[i] = c
        THEN lower[CHOOSE i \in DOMAIN upper : upper[i] = c]
        ELSE c

\* the emitted template literal as the string it evaluates to
queryString(query) == join(query, " ")

\* string.substring(i - 1, i - 1 + word.length) is word, letter case apart
matchAt(string, i, word) ==
    /\ i >= 1
    /\ i + Len(word) - 1 <= Len(string)
    /\ \A j \in 1..Len(word) : lowerCase(charAt(string, i + j - 1)) = charAt(word, j)

\* lowerQuery.trim().startsWith('select')
startsWithSelect(string) ==
    \E i \in 1..Len(string) :
        /\ \A j \in 1..(i - 1) : charAt(string, j) \in Whitespace
        /\ matchAt(string, i, "select")

\* /\bword\s+/i
keywordPattern(string, word) ==
    \E i \in 1..Len(string) :
        /\ charAt(string, i - 1) \notin WordCharacters
        /\ matchAt(string, i, word)
        /\ charAt(string, i + Len(word)) \in Whitespace

\* /\bfirst\s+second\b/i
twoKeywordPattern(string, first, second) ==
    \E i \in 1..Len(string) :
        /\ charAt(string, i - 1) \notin WordCharacters
        /\ matchAt(string, i, first)
        /\ \E j \in (i + Len(first) + 1)..Len(string) :
              /\ \A h \in (i + Len(first))..(j - 1) : charAt(string, h) \in Whitespace
              /\ matchAt(string, j, second)
              /\ charAt(string, j + Len(second)) \notin WordCharacters

\* some pattern of dangerousPatterns matches the query; the last two are /--/
\* and /;\s*\w/
dangerousPatterns(string) ==
    \/ keywordPattern(string, "drop")
    \/ twoKeywordPattern(string, "delete", "from")
    \/ keywordPattern(string, "update")
    \/ twoKeywordPattern(string, "insert", "into")
    \/ keywordPattern(string, "alter")
    \/ keywordPattern(string, "create")
    \/ keywordPattern(string, "truncate")
    \/ \E i \in 1..Len(string) : matchAt(string, i, "--")
    \/ \E i \in 1..Len(string) :
          /\ charAt(string, i) = ";"
          /\ \E j \in (i + 1)..Len(string) :
                /\ \A h \in (i + 1)..(j - 1) : charAt(string, h) \in Whitespace
                /\ charAt(string, j) \in WordCharacters

\* the last position of the match of [a-zA-Z_][a-zA-Z0-9_]* that begins at i
RECURSIVE nameEnd(_, _)
nameEnd(string, i) ==
    IF charAt(string, i + 1) \in WordCharacters THEN nameEnd(string, i + 1) ELSE i

\* query.match(/:([a-zA-Z_][a-zA-Z0-9_]*)/g) from position i on, each match
\* without its colon
RECURSIVE parameterMatches(_, _)
parameterMatches(string, i) ==
    IF i > Len(string) THEN <<>>
    ELSE IF /\ charAt(string, i) = ":"
            /\ charAt(string, i + 1) \in WordCharacters
            /\ charAt(string, i + 1) \notin
                   {"0", "1", "2", "3", "4", "5", "6", "7", "8", "9"}
    THEN <<SubSeq(string, i + 1, nameEnd(string, i + 1))>>
             \o parameterMatches(string, nameEnd(string, i + 1) + 1)
    ELSE parameterMatches(string, i + 1)

\* [...new Set(names)]: each name once, in the order of the first occurrences
RECURSIVE unique(_)
unique(names) ==
    IF names = <<>> THEN <<>>
    ELSE LET front == unique(SubSeq(names, 1, Len(names) - 1))
         IN  IF Last(names) \in Range(front) THEN front ELSE Append(front, Last(names))

\* /^[a-zA-Z0-9\s\-_.@]+$/.test(value)
parameterFormat(string) ==
    /\ Len(string) >= 1
    /\ \A i \in 1..Len(string) :
           charAt(string, i) \in (WordCharacters \cup Whitespace \cup {"-", ".", "@"})

\* the input validation of findOne: the message of the error it throws, or none
validate(object, query) ==
    LET string == queryString(query.text)
        parameterNames == unique(parameterMatches(string, 1))
        bad(n) == get(object.object, parameterNames[n]) \in {Null, Undefined}
        malformed(n) ==
            /\ get(object.object, parameterNames[n]).type = "string"
            /\ ~parameterFormat(get(object.object, parameterNames[n]).s)
    IN  IF object.kind # "object" THEN "Invalid payload parameter"
        ELSE IF query.kind # "text" \/ string = "" THEN "Invalid query parameter"
        ELSE IF ~startsWithSelect(string) THEN "Only SELECT queries are allowed"
        ELSE IF dangerousPatterns(string) THEN "Potentially dangerous SQL pattern"
        ELSE IF parameterNames = <<>>
        THEN "Query must contain at least one parameter placeholder"
        ELSE IF \E n \in DOMAIN parameterNames : parameterNames[n] \notin DOMAIN object.object
        THEN "Missing required parameters"
        ELSE IF \E n \in DOMAIN parameterNames : bad(n) \/ malformed(n)
        THEN LET n == CHOOSE m \in DOMAIN parameterNames :
                          /\ bad(m) \/ malformed(m)
                          /\ \A h \in 1..(m - 1) : ~(bad(h) \/ malformed(h))
             IN  IF bad(n) THEN "Parameter cannot be null or undefined"
                 ELSE "Invalid format for parameter"
        ELSE "none"

\* findOne runs on the arguments of the handler's call: it throws out of its
\* validation, or goes on to build and run the query
findOne ==
    /\ hpc = "called"
    /\ call.fn = "findOne"
    /\ hpc' = IF validate(call.args[1], call.args[2]) = "none" THEN "queried"
              ELSE "rejected"
    /\ UNCHANGED <<request, payload, whereConditions, queryParams, step, call>>
    /\ UNCHANGED toolVars

-----------------------------------------------------------------------------
(* Control *)

IOPcs == {"readdir", "readSpec", "mkdir", "writeModule", "readIndex", "writeIndex",
          "readBuilderDir", "rm", "cleanReadIndex", "cleanWriteIndex"}

NoBuf == [read |-> <<>>, lines |-> <<>>, items |-> {}]

NoFailure == [op |-> "none", at |-> 0]

config(p) == jsonFiles[p][k[p]]

Goto(p, l) ==
    /\ pc' = [pc EXCEPT ![p] = l]
    /\ UNCHANGED <<k, visited, exitCode, log>>

\* the process ends: process.exit(1) in a catch, or the event loop runs empty
Exit(p, code) ==
    /\ pc' = [pc EXCEPT ![p] = "done"]
    /\ exitCode' = [exitCode EXCEPT ![p] = code]
    /\ log' = Append(log, [proc |-> p, mode |-> mode[p], exit |-> code,
                           specs |-> jsonFiles[p], visited |-> visited[p],
                           failure |-> failure'[p],
                           before |-> runStart[p].index, after |-> index',
                           filesBefore |-> runStart[p].files,
                           filesAfter |-> outFiles', dirsAfter |-> outDirs'.dirs])
    /\ UNCHANGED <<k, visited>>

\* a loop that returns after its first jsonFile
nextJsonFileFirstOnly(p) == Exit(p, 0)

\* the for loop of generateScript: the next jsonFile, or the end of the loop
nextJsonFile(p) ==
    IF k[p] < Len(jsonFiles[p])
    THEN /\ pc' = [pc EXCEPT ![p] = "readSpec"]
         /\ k' = [k EXCEPT ![p] = k[p] + 1]
         /\ visited' = [visited EXCEPT ![p] = visited[p] \cup {k[p] + 1}]
         /\ UNCHANGED <<exitCode, log>>
    ELSE Exit(p, 0)

\* cleanupIndexFile up to its readFile
enterCleanupIndexFile(p) ==
    IF ~index.exists THEN Exit(p, 0) ELSE Goto(p, "cleanReadIndex")

-----------------------------------------------------------------------------
(* The tool is started: bun api-builder/index.ts [--clean | --reset] *)

Start(p, m) ==
    /\ pc[p] \in {"idle", "done"}
    /\ UNCHANGED handlerVars
    /\ runsLeft[p] > 0
    /\ runsLeft' = [runsLeft EXCEPT ![p] = runsLeft[p] - 1]
    /\ mode' = [mode EXCEPT ![p] = m]
    /\ runStart' = [runStart EXCEPT ![p] = [index |-> index, files |-> outFiles]]
    /\ k' = [k EXCEPT ![p] = 0]
    /\ visited' = [visited EXCEPT ![p] = {}]
    /\ failure' = [failure EXCEPT ![p] = NoFailure]
    /\ buf' = [buf EXCEPT ![p] = NoBuf]
    /\ UNCHANGED <<index, outDirs, outFiles, jsonFiles, lastUpsert, stale>>
    /\ IF m = "generate"
       THEN /\ pc' = [pc EXCEPT ![p] = "readdir"]
            /\ UNCHANGED <<exitCode, log>>
       ELSE IF ~outDirs.exists /\ ~index.exists
       THEN /\ pc' = [pc EXCEPT ![p] = "done"]
            /\ exitCode' = [exitCode EXCEPT ![p] = 0]
            /\ log' = Append(log, [proc |-> p, mode |-> m, exit |-> 0,
                                   specs |-> jsonFiles[p], visited |-> {},
                                   failure |-> NoFailure,
                                   before |-> index, after |-> index,
                                   filesBefore |-> outFiles,
                                   filesAfter |-> outFiles, dirsAfter |-> outDirs.dirs])
       ELSE /\ pc' = [pc EXCEPT ![p] = IF outDirs.exists THEN "readBuilderDir"
                                       ELSE "cleanReadIndex"]
            /\ UNCHANGED <<exitCode, log>>

-----------------------------------------------------------------------------
(* An error is caught *)

\* as rethrow, the catch of processJsonFile not throwing: the loop goes on
swallowInProcessJsonFile(p) ==
    /\ failure' = [failure EXCEPT ![p] = [op |-> pc[p], at |-> k[p]]]
    /\ IF mode[p] = "generate" /\ k[p] > 0 THEN nextJsonFile(p) ELSE Exit(p, 1)

\* as rethrow, the catch of cleanupBuilderDirectory not throwing: cleanupIndexFile
\* is called
swallowInCleanupBuilderDirectory(p) ==
    /\ failure' = [failure EXCEPT ![p] = [op |-> pc[p], at |-> k[p]]]
    /\ IF pc[p] \in {"readBuilderDir", "rm"} THEN enterCleanupIndexFile(p) ELSE Exit(p, 1)

\* catch (error) { ...; throw error } of processJsonFile, cleanupBuilderDirectory,
\* cleanupIndexFile and preGenerateScript; catch (error) { ...; process.exit(1) }
\* of generateScript and of the caller of preGenerateScript
rethrow(p) ==
    /\ failure' = [failure EXCEPT ![p] = [op |-> pc[p], at |-> k[p]]]
    /\ Exit(p, 1)

-----------------------------------------------------------------------------
(* generate *)

\* readdir(jsonDir) returns
generateScript(p) ==
    /\ pc[p] = "readdir"
    /\ UNCHANGED handlerVars
    /\ UNCHANGED <<index, outDirs, outFiles, jsonFiles, runsLeft, mode, buf,
                   failure, runStart, lastUpsert, stale>>
    /\ IF Len(jsonFiles[p]) = 0
       THEN Exit(p, 0)
       ELSE /\ pc' = [pc EXCEPT ![p] = "readSpec"]
            /\ k' = [k EXCEPT ![p] = 1]
            /\ visited' = [visited EXCEPT ![p] = {1}]
            /\ UNCHANGED <<exitCode, log>>

\* JSON.parse(jsonContent) throws a SyntaxError
throwsInParse(doc) == ~doc.json

\* join(process.cwd(), "src", "builder", config.module, config.version) throws a
\* TypeError: an argument is not a string
throwsInJoin(doc) == "module" \in doc.lacks \/ "version" \in doc.lacks

\* as throwsInGenerateRouteFile, a missing routes member read as no routes
throwsInGenerateRouteFileNever(doc) == FALSE

\* config.routes.map(...) of generateRouteFile throws a TypeError
throwsInGenerateRouteFile(doc) == "routes" \in doc.lacks

\* processJsonFile from the return of ensureDirectoryExists up to its writeFile
afterEnsureDirectoryExists(p) ==
    IF throwsInGenerateRouteFile(config(p))
    THEN rethrow(p)
    ELSE /\ UNCHANGED failure
         /\ Goto(p, "writeModule")

\* readFile(jsonFilePath) returns; JSON.parse, join and ensureDirectoryExists up
\* to its mkdir
processJsonFile(p) ==
    /\ pc[p] = "readSpec"
    /\ UNCHANGED handlerVars
    /\ UNCHANGED <<index, outDirs, outFiles, jsonFiles, runsLeft, mode, buf,
                   runStart, lastUpsert, stale>>
    /\ IF throwsInParse(config(p)) \/ throwsInJoin(config(p))
       THEN rethrow(p)
       ELSE IF outDirs.exists /\ [module |-> config(p).module,
                                  version |-> config(p).version] \in outDirs.dirs
       THEN afterEnsureDirectoryExists(p)
       ELSE /\ UNCHANGED failure
            /\ Goto(p, "mkdir")

\* mkdir(dirPath, { recursive: true }) returns
ensureDirectoryExists(p) ==
    /\ pc[p] = "mkdir"
    /\ UNCHANGED handlerVars
    /\ outDirs' = [exists |-> TRUE,
                   dirs |-> outDirs.dirs \cup {[module |-> config(p).module,
                                                version |-> config(p).version]}]
    /\ UNCHANGED <<index, outFiles, jsonFiles, runsLeft, mode, buf,
                   runStart, lastUpsert, stale>>
    /\ afterEnsureDirectoryExists(p)

\* as skipIndexUpdate, throwing instead of returning
failIndexUpdate(p) ==
    /\ lastUpsert' = [config |-> config(p), missing |-> TRUE, wrote |-> FALSE,
                      before |-> <<>>, after |-> <<>>, files |-> outFiles']
    /\ Exit(p, 1)

\* updateIndexFile when src/index.ts does not exist: console.warn and return
skipIndexUpdate(p) ==
    /\ lastUpsert' = [config |-> config(p), missing |-> TRUE, wrote |-> FALSE,
                      before |-> <<>>, after |-> <<>>, files |-> outFiles']
    /\ nextJsonFile(p)

\* writeFile(outputPath, tsContent) returns; updateIndexFile up to its readFile
writeModule(p) ==
    /\ pc[p] = "writeModule"
    /\ UNCHANGED handlerVars
    /\ [module |-> config(p).module, version |-> config(p).version] \in outDirs.dirs
    /\ outFiles' = writeModuleFile(outFiles, moduleFile(config(p)))
    /\ UNCHANGED <<index, outDirs, jsonFiles, runsLeft, mode, buf,
                   failure, runStart, stale>>
    /\ IF ~index.exists
       THEN skipIndexUpdate(p)
       ELSE /\ UNCHANGED lastUpsert
            /\ Goto(p, "readIndex")

\* readFile(indexPath) returns; updateIndexFile up to its writeFile
readIndex(p) ==
    /\ pc[p] = "readIndex"
    /\ UNCHANGED handlerVars
    /\ index.exists
    /\ UNCHANGED <<index, outDirs, outFiles, jsonFiles, runsLeft, mode,
                   failure, runStart, stale>>
    /\ LET r == updateIndexFile(index.lines, config(p))
       IN  IF r.addedImport \/ r.addedUse
           THEN /\ buf' = [buf EXCEPT ![p] = [read |-> index.lines, lines |-> r.lines,
                                              items |-> {}]]
                /\ UNCHANGED lastUpsert
                /\ Goto(p, "writeIndex")
           ELSE /\ UNCHANGED buf
                /\ lastUpsert' = [config |-> config(p), missing |-> FALSE,
                                  wrote |-> FALSE,
                                  before |-> index.lines, after |-> index'.lines,
                                  files |-> outFiles]
                /\ nextJsonFile(p)

\* writeFile(indexPath, updatedContent) returns
writeIndex(p) ==
    /\ pc[p] = "writeIndex"
    /\ UNCHANGED handlerVars
    /\ index' = [exists |-> TRUE, lines |-> buf[p].lines]
    /\ stale' = (stale \/ index.lines # buf[p].read)
    /\ lastUpsert' = [config |-> config(p), missing |-> FALSE, wrote |-> TRUE,
                      before |-> buf[p].read, after |-> index'.lines,
                      files |-> outFiles]
    /\ buf' = [buf EXCEPT ![p] = NoBuf]
    /\ UNCHANGED <<outDirs, outFiles, jsonFiles, runsLeft, mode, failure, runStart>>
    /\ nextJsonFile(p)

-----------------------------------------------------------------------------
(* clean *)

\* readdir(builderDir) returns
cleanupBuilderDirectory(p) ==
    /\ pc[p] = "readBuilderDir"
    /\ UNCHANGED handlerVars
    /\ UNCHANGED <<index, outDirs, outFiles, jsonFiles, runsLeft, mode,
                   failure, runStart, lastUpsert, stale>>
    /\ IF builderItems(outDirs.dirs) = {}
       THEN /\ UNCHANGED buf
            /\ enterCleanupIndexFile(p)
       ELSE /\ buf' = [buf EXCEPT ![p] = [read |-> <<>>, lines |-> <<>>,
                                          items |-> builderItems(outDirs.dirs)]]
            /\ Goto(p, "rm")

\* rm(itemPath, { recursive: true, force: true }) returns, for the next item of
\* the listing
rmItem(p, item) ==
    /\ pc[p] = "rm"
    /\ UNCHANGED handlerVars
    /\ item \in buf[p].items
    /\ outDirs' = [outDirs EXCEPT !.dirs = {d \in outDirs.dirs : d.module # item}]
    /\ outFiles' = {f \in outFiles : f.path[3] # item}
    /\ buf' = [buf EXCEPT ![p].items = buf[p].items \ {item}]
    /\ UNCHANGED <<index, jsonFiles, runsLeft, mode, failure, runStart,
                   lastUpsert, stale>>
    /\ IF buf[p].items = {item} THEN enterCleanupIndexFile(p) ELSE Goto(p, "rm")

\* readFile(indexPath) returns; cleanupIndexFile up to its writeFile
cleanReadIndex(p) ==
    /\ pc[p] = "cleanReadIndex"
    /\ UNCHANGED handlerVars
    /\ index.exists
    /\ UNCHANGED <<index, outDirs, outFiles, jsonFiles, runsLeft, mode,
                   failure, runStart, lastUpsert, stale>>
    /\ LET r == cleanupIndexFile(index.lines)
       IN  IF r.wrote
           THEN /\ buf' = [buf EXCEPT ![p] = [read |-> index.lines, lines |-> r.lines,
                                              items |-> {}]]
                /\ Goto(p, "cleanWriteIndex")
           ELSE /\ UNCHANGED buf
                /\ Exit(p, 0)

\* writeFile(indexPath, cleanedContent) returns
cleanWriteIndex(p) ==
    /\ pc[p] = "cleanWriteIndex"
    /\ UNCHANGED handlerVars
    /\ index' = [exists |-> TRUE, lines |-> buf[p].lines]
    /\ stale' = (stale \/ index.lines # buf[p].read)
    /\ buf' = [buf EXCEPT ![p] = NoBuf]
    /\ UNCHANGED <<outDirs, outFiles, jsonFiles, runsLeft, mode, failure, runStart,
                   lastUpsert>>
    /\ Exit(p, 0)

-----------------------------------------------------------------------------
(* A file operation fails *)

\* the pending file operation rejects
throw(p) ==
    /\ pc[p] \in IOPcs
    /\ UNCHANGED handlerVars
    /\ UNCHANGED <<index, outDirs, outFiles, jsonFiles, runsLeft, mode, buf,
                   runStart, lastUpsert, stale>>
    /\ rethrow(p)

-----------------------------------------------------------------------------
(* Specifications *)

InitFilesystem(maxLines) ==
    /\ index \in {[exists |-> FALSE, lines |-> <<>>]}
                 \cup {[exists |-> TRUE, lines |-> l] : l \in SeqsUpTo(LineAlphabet, maxLines)}
    /\ outDirs = [exists |-> FALSE, dirs |-> {}]
    /\ outFiles = {}

InitControl ==
    /\ mode = [p \in Procs |-> "generate"]
    /\ pc = [p \in Procs |-> "idle"]
    /\ k = [p \in Procs |-> 0]
    /\ buf = [p \in Procs |-> NoBuf]
    /\ exitCode = [p \in Procs |-> 0]
    /\ visited = [p \in Procs |-> {}]
    /\ failure = [p \in Procs |-> NoFailure]
    /\ runStart = [p \in Procs |-> [index |-> [exists |-> FALSE, lines |-> <<>>],
                                     files |-> {}]]
    /\ log = <<>>
    /\ lastUpsert = [config |-> NoSpec, missing |-> FALSE, wrote |-> FALSE,
                     before |-> <<>>, after |-> <<>>, files |-> {}]
    /\ stale = FALSE
    /\ InitHandler

\* one instance of the tool, invoked MaxRuns times, one invocation after the other
Init ==
    /\ InitFilesystem(MaxLines)
    /\ InitControl
    /\ jsonFiles \in {[p \in Procs |-> IF p = 1 THEN b ELSE <<>>] : b \in Batches}
    /\ runsLeft = [p \in Procs |-> IF p = 1 THEN MaxRuns ELSE 0]

Next ==
    \E p \in Procs :
        \/ \E m \in {"generate", "clean"} : Start(p, m)
        \/ generateScript(p)
        \/ processJsonFile(p)
        \/ ensureDirectoryExists(p)
        \/ writeModule(p)
        \/ readIndex(p)
        \/ writeIndex(p)
        \/ cleanupBuilderDirectory(p)
        \/ \E item \in Modules : rmItem(p, item)
        \/ cleanReadIndex(p)
        \/ cleanWriteIndex(p)
        \/ throw(p)

Spec == Init /\ [][Next]_vars

\* two instances of the tool, each invoked once, at the same time and in the same
\* working directory; each has listed api-builder/json on its own
InitConc ==
    /\ InitFilesystem(MaxConcLines)
    /\ InitControl
    /\ jsonFiles \in [Procs -> {b \in Batches : Len(b) <= 1}]
    /\ runsLeft = [p \in Procs |-> 1]

SpecConc == InitConc /\ [][Next]_vars

\* one instance of the tool, invoked with --clean MaxRuns times on any aggregator
\* file, src/builder holding the modules of all the specs
InitClean ==
    /\ index \in {[exists |-> FALSE, lines |-> <<>>]}
                 \cup {[exists |-> TRUE, lines |-> l] :
                           l \in SeqsUpTo(LineAlphabet, MaxCleanLines)}
    /\ outDirs = [exists |-> TRUE,
                  dirs |-> {[module |-> c.module, version |-> c.version] : c \in AllSpecs}]
    /\ outFiles = {moduleFile(c) : c \in AllSpecs}
    /\ InitControl
    /\ jsonFiles = [p \in Procs |-> <<>>]
    /\ runsLeft = [p \in Procs |-> IF p = 1 THEN MaxRuns ELSE 0]

NextClean ==
    \E p \in Procs :
        \/ Start(p, "clean")
        \/ cleanupBuilderDirectory(p)
        \/ \E item \in Modules : rmItem(p, item)
        \/ cleanReadIndex(p)
        \/ cleanWriteIndex(p)
        \/ throw(p)

SpecClean == InitClean /\ [][NextClean]_vars

\* the routes whose compilation the model follows: findOne and findOneById
\* routes, with and without conditions, with and without the template token
CompileFields == {"name", "access"}
CompileOperators == KnownOperators \cup {"~"}
CompileRules == {<<>>}
    \cup {<<[field |-> f, operator |-> o]>> : f \in CompileFields, o \in CompileOperators}
CompileQueries ==
    {<<"SELECT id FROM roles WHERE", "id = :id">>,
     <<"SELECT id FROM roles WHERE", DynamicConditionsToken>>}
CompileRoutes ==
    {Route("findRole", "/find", keys, requestType, query, conditions) :
        keys \in {<<>>, <<"name", "access">>},
        requestType \in {"findOne", "findOneById"},
        query \in CompileQueries,
        conditions \in {NoConditions} \cup {Conditions(r) : r \in CompileRules}}

\* one instance of the tool, invoked MaxRuns times on src/index.ts as the
\* repository has it, api-builder/json holding one spec document of one route
InitCompile ==
    /\ index = [exists |-> TRUE,
                lines |-> <<ImportLine(authRoutes, <<"./core/auth/auth", ".routes">>),
                            UseLine(authRoutes)>>]
    /\ outDirs = [exists |-> FALSE, dirs |-> {}]
    /\ outFiles = {}
    /\ InitControl
    /\ jsonFiles \in {[p \in Procs |->
                          IF p = 1
                          THEN <<Document(<<"roles">>, <<"v", "1">>, <<r>>)>>
                          ELSE <<>>] : r \in CompileRoutes}
    /\ runsLeft = [p \in Procs |-> IF p = 1 THEN MaxRuns ELSE 0]

SpecCompile == InitCompile /\ [][Next]_vars

\* spec documents that JSON.parse rejects, or that lack members
NotJson == [Document(<<>>, <<>>, <<>>) EXCEPT !.json = FALSE]
Lacking(doc, members) ==
    [json |-> TRUE, lacks |-> members,
     module |-> IF "module" \in members THEN <<>> ELSE doc.module,
     version |-> IF "version" \in members THEN <<>> ELSE doc.version,
     routes |-> IF "routes" \in members THEN <<>> ELSE doc.routes]
rolesV1 == Document(<<"roles">>, <<"v", "1">>, <<findRoleById>>)
usersV1 == Document(<<"users">>, <<"v", "1">>, <<findRoleById>>)
LoadDocuments ==
    {rolesV1, usersV1, NotJson}
    \cup {Lacking(rolesV1, m) : m \in {{"module"}, {"version"}, {"routes"},
                                       {"module", "version", "routes"}}}

\* one instance of the tool, invoked MaxRuns times on src/index.ts as the
\* repository has it, api-builder/json holding up to MaxSpecs documents, well
\* formed or not
InitLoad ==
    /\ index = [exists |-> TRUE,
                lines |-> <<ImportLine(authRoutes, <<"./core/auth/auth", ".routes">>),
                            UseLine(authRoutes)>>]
    /\ outDirs = [exists |-> FALSE, dirs |-> {}]
    /\ outFiles = {}
    /\ InitControl
    /\ jsonFiles \in {[p \in Procs |-> IF p = 1 THEN b ELSE <<>>] :
                          b \in SeqsUpTo(LoadDocuments, MaxSpecs)}
    /\ runsLeft = [p \in Procs |-> IF p = 1 THEN MaxRuns ELSE 0]

SpecLoad == InitLoad /\ [][Next]_vars

\* the lines of an aggregator file that also registers a plugin whose variable
\* does not have Routes in its name
corsPlugin == <<"cors">>
WireAlphabet ==
    {TextLine("const app = new Elysia()"),
     ImportLine(authRoutes, <<"./core/auth/auth", ".routes">>),
     UseLine(authRoutes),
     UseLine(corsPlugin),
     generateImportStatement(rolesV1)}
MaxWireLines == 3

\* one instance of the tool, invoked MaxRuns times on such a file,
\* api-builder/json holding the roles v1 document
InitWire ==
    /\ index \in {[exists |-> TRUE, lines |-> l] :
                     l \in SeqsUpTo(WireAlphabet, MaxWireLines)}
    /\ outDirs = [exists |-> FALSE, dirs |-> {}]
    /\ outFiles = {}
    /\ InitControl
    /\ jsonFiles = [p \in Procs |-> IF p = 1 THEN <<rolesV1>> ELSE <<>>]
    /\ runsLeft = [p \in Procs |-> IF p = 1 THEN MaxRuns ELSE 0]

SpecWire == InitWire /\ [][Next]_vars

\* the routes whose emitted text the model follows: every declared method, paths
\* with and without :name segments, no tag, one tag and two tags, both request
\* types, with and without a payload; and routes of one payload field, the
\* field with and without each of its members
EmitPaths ==
    {<<Literal("/")>>, <<Literal("/"), Param("id")>>, <<Literal("/"), Param("slug")>>,
     <<Literal("/"), Param("slug"), Literal("/members/"), Param("id")>>}
EmitMethods == {"GET", "POST", "DELETE"}
EmitTags == {<<>>, <<"Roles">>, <<"Roles", "Admin">>}
EmitFields ==
    {FieldSpec(type, optional, format, description, minimum, maximum, minLength,
               maxLength, None) :
        type \in {"String", "Number"},
        optional \in {None, Some(FALSE), Some(TRUE)},
        format \in {None, Some(""), Some("uuid")},
        description \in {None, Some(""), Some("Role ID")},
        minimum \in {None, Some(0)},
        maximum \in {None, Some(10)},
        minLength \in {None},
        maxLength \in {None, Some(36)}}
    \cup {FieldSpec("String", None, None, None, None, None, Some(1), Some(36), None),
          FieldSpec("Boolean", Some(TRUE), None, Some("Active"), None, None, None,
                    None, None),
          FieldSpec("Array", Some(TRUE), Some("uuid"), Some("Role IDs"), None, None,
                    None, None, None),
          FieldSpec("Array", None, None, None, None, None, None, None,
                    Some("t.Number()"))}
EmitQuery == <<"SELECT id FROM roles WHERE", "id = :id">>
EmitRoutes ==
    {RouteDefinition("findRole", path, method,
                     Openapi("Find Role", "Retrieve a role", tags),
                     fields, requestType, EmitQuery, NoConditions) :
        path \in EmitPaths, method \in EmitMethods, tags \in EmitTags,
        fields \in {<<>>, <<[key |-> "id", config |-> StringField]>>},
        requestType \in {"findOne", "findOneById"}}
    \cup {RouteDefinition("findRole", <<Literal("/")>>, "POST",
                          Openapi("Find Role", "Retrieve a role", <<"Roles">>),
                          <<[key |-> "id", config |-> field]>>, "findOneById",
                          EmitQuery, NoConditions) :
             field \in EmitFields}

\* one instance of the tool, invoked MaxRuns times on src/index.ts as the
\* repository has it, api-builder/json holding one spec document of one route
InitEmit ==
    /\ index = [exists |-> TRUE,
                lines |-> <<ImportLine(authRoutes, <<"./core/auth/auth", ".routes">>),
                            UseLine(authRoutes)>>]
    /\ outDirs = [exists |-> FALSE, dirs |-> {}]
    /\ outFiles = {}
    /\ InitControl
    /\ jsonFiles \in {[p \in Procs |->
                          IF p = 1
                          THEN <<Document(<<"roles">>, <<"v", "1">>, <<r>>)>>
                          ELSE <<>>] : r \in EmitRoutes}
    /\ runsLeft = [p \in Procs |-> IF p = 1 THEN MaxRuns ELSE 0]

SpecEmit == InitEmit /\ [][Next]_vars

\* the routes whose handlers the model runs: findOne routes with up to MaxRules
\* conditions on distinct fields, and a findOne route without a payload
MaxRules == 2
ServeFields == {"access", "access_0"}
ServeRules ==
    {r \in SeqsUpTo([field : ServeFields, operator : CompileOperators], MaxRules) :
        \A i, j \in DOMAIN r : i # j => r[i].field # r[j].field}
ServeRoutes ==
    {Route("findRole", "/find", <<"access", "access_0">>, "findOne",
           <<"SELECT id FROM roles WHERE", DynamicConditionsToken>>, Conditions(r)) :
        r \in ServeRules}
    \cup {Route("findRole", "/find", keys, requestType,
                <<"SELECT id FROM roles WHERE", "id = :id">>, NoConditions) :
             keys \in {<<>>, <<"access", "access_0">>},
             requestType \in {"findOne", "findOneById"}}

\* the bodies of the requests: each field left out, null, a string, the
\* NOT_NULL sentinel, an empty array or an array of two strings
ServeValues == {Null, Str("x"), Str("NOT_NULL"), Arr(<<>>), Arr(<<"a", "b">>)}
ServeBodies ==
    UNION {[fields -> ServeValues] : fields \in SUBSET ServeFields}

\* the server after one run of the tool on a spec document of one route: the
\* module is written and mounted in src/index.ts
InitServe ==
    /\ \E r \in ServeRoutes :
          LET doc == Document(<<"roles">>, <<"v", "1">>, <<r>>)
          IN  /\ jsonFiles = [p \in Procs |-> IF p = 1 THEN <<doc>> ELSE <<>>]
              /\ outFiles = {moduleFile(doc)}
              /\ outDirs = [exists |-> TRUE,
                            dirs |-> {[module |-> doc.module, version |-> doc.version]}]
              /\ index = [exists |-> TRUE,
                          lines |-> updateIndexFile(
                              <<ImportLine(authRoutes, <<"./core/auth/auth", ".routes">>),
                                UseLine(authRoutes)>>, doc).lines]
    /\ InitControl
    /\ runsLeft = [p \in Procs |-> 0]

NextServe ==
    \/ \E f \in outFiles :
          \E n \in DOMAIN f.text.routes, body \in ServeBodies : Request(f, n, body)
    \/ Condition
    \/ Combine

SpecServe == InitServe /\ [][NextServe]_vars

\* the same server, findOne running on what the handlers pass to it
NextFind ==
    \/ NextServe
    \/ findOne

SpecFind == InitServe /\ [][NextFind]_vars

-----------------------------------------------------------------------------
(* What the claims speak of *)

\* the lines of a file that parse as an import of variable v, as a registration of v
importLines(lines, v) == SelectSeq(lines, LAMBDA l : importMatch(l) /\ l.var = v)
useLines(lines, v) == SelectSeq(lines, LAMBDA l : useMatch(l) /\ l.var = v)

isBuilderImport(l) == importMatch(l) /\ isBuilderPath(l.path)

\* the variables of the builder imports of a file
builderVars(lines) == {lines[i].var : i \in {j \in DOMAIN lines : isBuilderImport(lines[j])}}

\* a file without any line that contains .use( and Routes
hasAnchor(lines) == \E i \in DOMAIN lines : isUseOfRoutes(lines[i])

succeeded(e, m) == e.mode = m /\ e.exit = 0

\* completed invocation i is followed by completed invocation i + 1
Pairs == {i \in DOMAIN log : i + 1 \in DOMAIN log}

\* the file holds no builder import and names none of the variables of the specs
pristine(lines, specs) ==
    /\ builderVars(lines) = {}
    /\ \A n \in DOMAIN specs :
          /\ importLines(lines, generateRouteVariableName(specs[n])) = <<>>
          /\ useLines(lines, generateRouteVariableName(specs[n])) = <<>>

-----------------------------------------------------------------------------
(* C1: generate run twice in a row, both runs succeeding: the aggregator file  *)
(* after the second run is the file after the first run, and a variable of a   *)
(* spec that had at most one import line and one registration line before the  *)
(* first run has at most one of each after the second.                         *)

C1_GenerateIdempotent ==
    \A i \in Pairs :
        (succeeded(log[i], "generate") /\ succeeded(log[i + 1], "generate")) =>
            /\ log[i + 1].after = log[i].after
            /\ \A n \in DOMAIN log[i].specs :
                  LET v == generateRouteVariableName(log[i].specs[n])
                  IN  (/\ Len(importLines(log[i].before.lines, v)) <= 1
                       /\ Len(useLines(log[i].before.lines, v)) <= 1) =>
                      (/\ Len(importLines(log[i + 1].after.lines, v)) <= 1
                       /\ Len(useLines(log[i + 1].after.lines, v)) <= 1)

\* generate ran twice, the first run having inserted an import and a registration
C1_Witness ==
    \E i \in Pairs :
        /\ succeeded(log[i], "generate") /\ succeeded(log[i + 1], "generate")
        /\ log[i].before.exists
        /\ Len(log[i].after.lines) >= Len(log[i].before.lines) + 2
        /\ log[i + 1].after = log[i].after

-----------------------------------------------------------------------------
(* C2: generate, then clean, both succeeding.  As claimed, for any aggregator  *)
(* file: the file is restored to its content before generate and src/builder   *)
(* has no entry.                                                               *)

C2_RoundTripAnyFile ==
    \A i \in Pairs :
        (succeeded(log[i], "generate") /\ succeeded(log[i + 1], "clean")) =>
            /\ log[i + 1].after = log[i].before
            /\ log[i + 1].dirsAfter = {}
            /\ log[i + 1].filesAfter = {}

(* C2, amended: the same for an aggregator file that before generate holds no  *)
(* builder import and neither an import nor a registration of a variable of    *)
(* one of the specs.                                                           *)

C2_RoundTripPristine ==
    \A i \in Pairs :
        (/\ succeeded(log[i], "generate") /\ succeeded(log[i + 1], "clean")
         /\ pristine(log[i].before.lines, log[i].specs)) =>
            /\ log[i + 1].after = log[i].before
            /\ log[i + 1].dirsAfter = {}
            /\ log[i + 1].filesAfter = {}

\* generate inserted an import and a registration, clean took them out again
C2_Witness ==
    \E i \in Pairs :
        /\ succeeded(log[i], "generate") /\ succeeded(log[i + 1], "clean")
        /\ log[i].before.exists
        /\ pristine(log[i].before.lines, log[i].specs)
        /\ Len(log[i].after.lines) >= Len(log[i].before.lines) + 2
        /\ log[i].filesAfter # {}
        /\ log[i + 1].after = log[i].before
        /\ log[i + 1].filesAfter = {}

-----------------------------------------------------------------------------
(* C3: a clean that succeeds leaves of the aggregator file exactly the lines   *)
(* that are neither a builder import nor a registration of the variable of a   *)
(* builder import, in their order.                                             *)

keptByClean(lines) ==
    SelectSeq(lines, LAMBDA l : ~isBuilderImport(l)
                                /\ ~(useMatch(l) /\ l.var \in builderVars(lines)))

C3_CleanRemovesExactly ==
    \A i \in DOMAIN log :
        (succeeded(log[i], "clean") /\ log[i].before.exists) =>
            log[i].after.lines = keptByClean(log[i].before.lines)

\* clean ran on a file with two builder imports around an import that is none,
\* and a registration of one of the two after them
C3_Witness ==
    \E i \in DOMAIN log :
        /\ succeeded(log[i], "clean")
        /\ LET l == log[i].before.lines
           IN  \E a, b, c, d \in DOMAIN l :
                  /\ a < b /\ b < c /\ c < d
                  /\ isBuilderImport(l[a]) /\ isBuilderImport(l[c])
                  /\ importMatch(l[b]) /\ ~isBuilderImport(l[b])
                  /\ useMatch(l[d]) /\ l[d].var = l[a].var
        /\ Len(log[i].after.lines) = 1

-----------------------------------------------------------------------------
(* C4: updateIndexFile has run for a spec on an aggregator file that exists    *)
(* and had neither an import nor a registration of the variable of the spec.   *)
(* As claimed: the file has gained one import line and one registration line   *)
(* of that variable, and nothing else.                                         *)

upsertDone == lastUpsert.config # NoSpec /\ ~lastUpsert.missing

unreferenced(lines, v) == importLines(lines, v) = <<>> /\ useLines(lines, v) = <<>>

gainedOneOfEach(before, after, v) ==
    /\ Len(importLines(after, v)) = 1
    /\ Len(useLines(after, v)) = 1
    /\ Len(after) = Len(before) + 2
    /\ SelectSeq(after, LAMBDA l : l.var # v) = before

C4_GainsImportAndUse ==
    LET v == generateRouteVariableName(lastUpsert.config)
    IN  (upsertDone /\ unreferenced(lastUpsert.before, v)) =>
            gainedOneOfEach(lastUpsert.before, lastUpsert.after, v)

(* C4, amended: the same when the file holds a line that contains .use( and    *)
(* Routes; when it holds none, the file gains the import line alone.           *)

C4_GainsImportAndUseAfterAnchor ==
    LET v == generateRouteVariableName(lastUpsert.config)
    IN  (upsertDone /\ unreferenced(lastUpsert.before, v)) =>
            IF hasAnchor(lastUpsert.before)
            THEN gainedOneOfEach(lastUpsert.before, lastUpsert.after, v)
            ELSE /\ Len(importLines(lastUpsert.after, v)) = 1
                 /\ useLines(lastUpsert.after, v) = <<>>
                 /\ Len(lastUpsert.after) = Len(lastUpsert.before) + 1
                 /\ SelectSeq(lastUpsert.after, LAMBDA l : l.var # v) = lastUpsert.before

\* roles v1 was wired into a file that registers authRoutes
C4_Witness ==
    /\ upsertDone
    /\ lastUpsert.config.module = <<"roles">>
    /\ lastUpsert.config.version = <<"v", "1">>
    /\ unreferenced(lastUpsert.before, <<"roles", "V", "1", "Routes">>)
    /\ hasAnchor(lastUpsert.before)
    /\ lastUpsert.wrote
    /\ Len(useLines(lastUpsert.after, <<"roles", "V", "1", "Routes">>)) = 1

-----------------------------------------------------------------------------
(* C5: updateIndexFile has run for a spec on an aggregator file that parses    *)
(* to an import record and a registration record of the variable of the spec:  *)
(* nothing was written and the file is as it was.                              *)

C5_NoOpWhenWired ==
    LET v == generateRouteVariableName(lastUpsert.config)
    IN  (/\ upsertDone
         /\ importLines(lastUpsert.before, v) # <<>>
         /\ useLines(lastUpsert.before, v) # <<>>) =>
            /\ ~lastUpsert.wrote
            /\ lastUpsert.after = lastUpsert.before

\* updateIndexFile ran on a file that had the import and the registration
C5_Witness ==
    LET v == generateRouteVariableName(lastUpsert.config)
    IN  /\ upsertDone
        /\ importLines(lastUpsert.before, v) # <<>>
        /\ useLines(lastUpsert.before, v) # <<>>
        /\ ~lastUpsert.wrote

-----------------------------------------------------------------------------
(* C6: a file operation rejected while generate processed the spec at position *)
(* k of the listing: the exit code is 1, processJsonFile started for the       *)
(* positions 1..k and no other, the module files of the positions before k are *)
(* in src/builder and their imports in the aggregator file, and no file and no *)
(* line of a later position has come or gone.                                  *)

specFile(e, n) == moduleFile(e.specs[n])
specVar(e, n) == generateRouteVariableName(e.specs[n])

C6_GenerateFailsFast ==
    \A i \in DOMAIN log :
        LET e == log[i]
            at == e.failure.at
        IN  (e.mode = "generate" /\ e.failure.op # "none") =>
                /\ e.exit = 1
                /\ e.visited = 1..at
                /\ \A n \in 1..(at - 1) :
                      /\ specFile(e, n) \in e.filesAfter
                      /\ e.after.exists => importLines(e.after.lines, specVar(e, n)) # <<>>
                /\ e.filesAfter \subseteq
                      e.filesBefore \cup {specFile(e, n) : n \in 1..at}
                /\ \A n \in (at + 1)..Len(e.specs) :
                      (\A m \in 1..at : specVar(e, m) # specVar(e, n)) =>
                          /\ importLines(e.after.lines, specVar(e, n))
                                = importLines(e.before.lines, specVar(e, n))
                          /\ useLines(e.after.lines, specVar(e, n))
                                = useLines(e.before.lines, specVar(e, n))

\* generate failed at the second of two specs after it had wired the first
C6_Witness ==
    \E i \in DOMAIN log :
        /\ log[i].mode = "generate"
        /\ log[i].failure.at = 2
        /\ log[i].exit = 1
        /\ log[i].before.exists
        /\ log[i].filesBefore = {}
        /\ specFile(log[i], 1) \in log[i].filesAfter
        /\ importLines(log[i].before.lines, specVar(log[i], 1)) = <<>>
        /\ importLines(log[i].after.lines, specVar(log[i], 1)) # <<>>

-----------------------------------------------------------------------------
(* C7: the aggregator file does not exist and no file operation rejects: the   *)
(* run ends with exit code 0 and the file still does not exist; generate has   *)
(* processed every spec and written its module; clean has emptied src/builder. *)

C7_MissingIndexIsNotFatal ==
    \A i \in DOMAIN log :
        LET e == log[i]
        IN  (~e.before.exists /\ e.failure.op = "none") =>
                /\ e.exit = 0
                /\ ~e.after.exists
                /\ e.mode = "generate" =>
                      /\ e.visited = 1..Len(e.specs)
                      /\ \A n \in DOMAIN e.specs : specFile(e, n) \in e.filesAfter
                /\ e.mode = "clean" => (e.dirsAfter = {} /\ e.filesAfter = {})

\* without an aggregator file, generate wrote two modules and clean removed them
C7_Witness ==
    /\ Len(log) = 2
    /\ ~log[1].before.exists
    /\ succeeded(log[1], "generate")
    /\ Cardinality(log[1].filesAfter) = 2
    /\ lastUpsert.missing
    /\ succeeded(log[2], "clean")
    /\ log[2].filesAfter = {}
    /\ ~index.exists

-----------------------------------------------------------------------------
(* C8: clean.  As claimed: a failure of the aggregator file's read or write    *)
(* leaves src/builder emptied, and after a failure of the directory's readdir  *)
(* or rm the aggregator file is reverse-patched all the same.                  *)

dirOps == {"readBuilderDir", "rm"}
indexOps == {"cleanReadIndex", "cleanWriteIndex"}

C8_CleanStepsIndependent ==
    \A i \in DOMAIN log :
        LET e == log[i]
        IN  e.mode = "clean" =>
                /\ e.failure.op \in indexOps => (e.dirsAfter = {} /\ e.filesAfter = {})
                /\ (e.failure.op \in dirOps /\ e.before.exists) =>
                      e.after.lines = keptByClean(e.before.lines)

(* C8, amended: a failure of the aggregator file's read or write leaves        *)
(* src/builder emptied; a failure of the directory's readdir or rm ends clean  *)
(* with the aggregator file as it was; both end with exit code 1.              *)

C8_CleanFailsFast ==
    \A i \in DOMAIN log :
        LET e == log[i]
        IN  e.mode = "clean" =>
                /\ e.failure.op \in indexOps =>
                      (e.dirsAfter = {} /\ e.filesAfter = {} /\ e.exit = 1)
                /\ e.failure.op \in dirOps => (e.after = e.before /\ e.exit = 1)

\* rm failed on the second entry of src/builder, the aggregator file holding
\* builder imports
C8_Witness ==
    \E i \in DOMAIN log :
        /\ log[i].mode = "clean"
        /\ log[i].failure.op = "rm"
        /\ Cardinality(log[i].filesAfter) < Cardinality(log[i].filesBefore)
        /\ log[i].filesAfter # {}
        /\ builderVars(log[i].before.lines) # {}
        /\ log[i].after = log[i].before

-----------------------------------------------------------------------------
(* C9: two instances run generate at the same time and both succeed.  The      *)
(* aggregator file can end without the import of a spec of one of them; when   *)
(* it does, or lacks a registration although it holds a line to insert it      *)
(* after, a writeFile has replaced text that its instance had not read.        *)

bothGenerated ==
    /\ \A p \in Procs : pc[p] = "done"
    /\ Len(log) = 2
    /\ succeeded(log[1], "generate") /\ succeeded(log[2], "generate")
    /\ index.exists

lostEdit(v) ==
    \/ importLines(index.lines, v) = <<>>
    \/ hasAnchor(index.lines) /\ useLines(index.lines, v) = <<>>

C9_EditsLostOnlyByStaleWrite ==
    (/\ bothGenerated
     /\ \E i \in DOMAIN log : \E n \in DOMAIN log[i].specs : lostEdit(specVar(log[i], n)))
        => stale

\* both instances succeeded, for roles v1 and for users v1, and the file lacks
\* the import of one of the two
C9_Witness ==
    /\ bothGenerated
    /\ \A i \in DOMAIN log : Len(log[i].specs) = 1 /\ log[i].specs[1].version = <<"v", "1">>
    /\ {log[1].specs[1].module, log[2].specs[1].module} = {<<"roles">>, <<"users">>}
    /\ \E i \in DOMAIN log : importLines(index.lines, specVar(log[i], 1)) = <<>>
    /\ \E i \in DOMAIN log : importLines(index.lines, specVar(log[i], 1)) # <<>>

\* a route with handler.conditions whose query lacks the template token
templateMismatch(route) ==
    /\ route.handler.conditions.present
    /\ ~includes(route.handler.query, DynamicConditionsToken)

(* C10: when a route declares handler.conditions and its base query does not
   contain the {dynamic_conditions} token, the compilation of the route fails
   and no module is emitted for its spec: a generate run that reaches such a
   spec exits with code 1 and leaves no module file of the spec behind. *)
C10_TemplateMismatchFails ==
    \A i \in DOMAIN log :
        LET e == log[i]
        IN  \A n \in e.visited :
                (/\ e.mode = "generate"
                 /\ \E r \in DOMAIN e.specs[n].routes :
                        /\ e.specs[n].routes[r].handler.requestType = "findOne"
                        /\ templateMismatch(e.specs[n].routes[r]))
                => /\ e.exit = 1
                   /\ \A f \in e.filesAfter :
                          f.path # outputPath(e.specs[n])

-----------------------------------------------------------------------------
\* a document the loader cannot make a RouteSpec of
malformed(doc) == ~doc.json \/ doc.lacks # {}

(* C11: processing a spec document that is not valid JSON, or that lacks
   module, version or routes, fails before any module file is written and
   before the aggregator file is modified for it: every step of the processing
   of such a document leaves the module files and src/index.ts as they are,
   and the processing either goes on to create the output directory or ends
   the run with exit code 1; it never reaches writeFile or updateIndexFile. *)
C11_MalformedSpecRejected ==
    [][\A p \in Procs :
          (/\ pc[p] \in {"readSpec", "mkdir"}
           /\ malformed(config(p))
           /\ pc'[p] # pc[p])
          => /\ outFiles' = outFiles
             /\ index' = index
             /\ \/ pc[p] = "readSpec" /\ pc'[p] = "mkdir"
                \/ pc'[p] = "done" /\ exitCode'[p] = 1]_vars

\* a run that stopped at a document lacking routes after creating its
\* directory, a well-formed document before it having been wired
C11_Witness ==
    \E i \in DOMAIN log :
        LET e == log[i]
        IN  /\ e.mode = "generate" /\ e.exit = 1
            /\ e.visited = {1, 2}
            /\ ~malformed(e.specs[1])
            /\ e.specs[2].lacks = {"routes"}
            /\ e.failure = [op |-> "mkdir", at |-> 2]
            /\ \A f \in e.filesAfter : f.path # outputPath(e.specs[2])
            /\ specFile(e, 1) \in e.filesAfter
            /\ e.after.lines # e.before.lines

-----------------------------------------------------------------------------
\* the segments of an import path: its tokens split at the slashes
RECURSIVE segments(_, _)
segments(tokens, current) ==
    IF tokens = <<>> THEN <<current>>
    ELSE CASE Head(tokens) = "/" -> <<current>> \o segments(Tail(tokens), <<>>)
           [] Head(tokens) = "./builder/" ->
                  <<current \o <<".">>, <<"builder">>>> \o segments(Tail(tokens), <<>>)
           [] OTHER -> segments(Tail(tokens), Append(current, Head(tokens)))

\* the file an import of src/index.ts designates: the path relative to src, the
\* extension .ts added
resolveImport(importPath) ==
    LET segs == segments(importPath, <<>>)
        from == IF Head(segs) = <<".">> THEN <<<<"src">>>> \o Tail(segs) ELSE segs
    IN  [n \in DOMAIN from |-> IF n = Len(from) THEN from[n] \o <<".ts">> ELSE from[n]]

\* the lines an upsert inserted: those the file holds more often than before
occurrences(lines, l) == Cardinality({n \in DOMAIN lines : lines[n] = l})
insertedLines(before, after) ==
    {l \in Range(after) : occurrences(after, l) > occurrences(before, l)}

(* C12: for every (module, version), the identifier the generated module
   exports, the identifier of the inserted import statement and the identifier
   of the inserted registration call are the same string, module + version with
   its first letter capitalised + "Routes", and the path of the inserted import
   designates the module file that generate wrote for the pair. *)
C12_NameConsistency ==
    (upsertDone /\ lastUpsert.wrote) =>
        LET c == lastUpsert.config
            name == c.module \o <<ToUpper(Head(c.version))>> \o Tail(c.version)
                        \o <<"Routes">>
        IN  \A l \in insertedLines(lastUpsert.before, lastUpsert.after) :
                /\ l.t \in {"import", "use"}
                /\ l.var = name
                /\ l.t = "import" =>
                      \E f \in lastUpsert.files :
                          /\ f.path = resolveImport(l.path)
                          /\ f.path = outputPath(c)
                          /\ f.text = generateRouteFile(c)
                          /\ f.text.className = name

\* an upsert for roles V1 that inserted the import and the registration
C12_Witness ==
    /\ upsertDone /\ lastUpsert.wrote
    /\ lastUpsert.config.module = <<"roles">>
    /\ lastUpsert.config.version = <<"V", "1">>
    /\ \E l \in insertedLines(lastUpsert.before, lastUpsert.after) : l.t = "import"
    /\ \E l \in insertedLines(lastUpsert.before, lastUpsert.after) : l.t = "use"

-----------------------------------------------------------------------------
\* the route of the spec document whose handler serves the request, its rules,
\* and the request once its handler has called findOne with the bound payload
\* and the query
requested == jsonFiles[1][1].routes[request.n]
rules == requested.handler.conditions.rules
answered ==
    /\ hpc = "called"
    /\ call.fn = "findOne"
    /\ requested.handler.conditions.present
    /\ includes(requested.handler.query, DynamicConditionsToken)
bound == call.args[1].object
where == call.args[2].text

\* :f_0, ..., :f_{n-1}
RECURSIVE parameterList(_, _)
parameterList(f, n) ==
    IF n = 1 THEN ":" \o f \o "_0"
    ELSE parameterList(f, n - 1) \o ", :" \o f \o "_" \o ToString(n - 1)

\* rule n is an IN rule and the inbound payload has a non-empty sequence for it
inGiven(n) ==
    /\ rules[n].operator = "IN"
    /\ get(request.body, rules[n].field).type = "array"
    /\ Len(get(request.body, rules[n].field).items) > 0

(* C13: for a rule with operator IN on field f and an inbound payload whose f
   is a non-empty sequence of length n, the fragment f IN (:f_0, ..., :f_{n-1})
   is appended exactly once, the final bound-parameter payload holds element i
   under f_i for every i < n, and it has no key f. *)
C13_InConditionBinds ==
    answered =>
        \A n \in DOMAIN rules :
            inGiven(n) =>
                LET f == rules[n].field
                    items == get(request.body, f).items
                IN  /\ occurrences(whereConditions,
                                   f \o " IN (" \o parameterList(f, Len(items)) \o ")") = 1
                    /\ \A i \in DOMAIN items :
                           get(bound, f \o "_" \o ToString(i - 1)) = Str(items[i])
                    /\ f \notin DOMAIN bound

\* the guard of rule n holds for the inbound payload: the field is a non-empty
\* sequence (IN), is null (IS NULL), is the NOT_NULL sentinel (IS NOT NULL), is
\* given and not null (every other operator)
active(n) ==
    LET value == get(request.body, rules[n].field)
    IN  CASE rules[n].operator = "IN" -> value.type = "array" /\ value.items # <<>>
          [] rules[n].operator = "IS NULL" -> value = Null
          [] rules[n].operator = "IS NOT NULL" -> value = Str("NOT_NULL")
          [] OTHER -> value # Undefined /\ value # Null

\* the statement of a rule whose guard is false for the inbound payload runs
inactiveStep ==
    /\ hpc = "conditions"
    /\ step \in DOMAIN rules
    /\ ~active(step)
    /\ step' = step + 1

(* C14: the statement of a condition whose guard is false for the inbound
   payload adds no fragment to the WHERE conditions and no parameter to the
   query parameters, and when no condition of the route is active the text
   that replaces the token in the query is exactly 1=1. *)
C14_InactiveConditions ==
    /\ [][inactiveStep =>
              /\ whereConditions' = whereConditions
              /\ queryParams' = queryParams]_vars
    /\ []((answered /\ \A n \in DOMAIN rules : ~active(n)) =>
              where = replace(requested.handler.query, DynamicConditionsToken, "1=1"))

\* a request without access served by a route with an IN rule on access and a
\* second rule, none of them active: the query passed to findOne ends in 1=1
C14_Witness ==
    /\ answered
    /\ Len(rules) = 2
    /\ rules[1] = [field |-> "access", operator |-> "IN"]
    /\ "access" \notin DOMAIN request.body
    /\ "access_0" \in DOMAIN request.body
    /\ \A n \in DOMAIN rules : ~active(n)
    /\ whereConditions = <<>>
    /\ where = <<"SELECT id FROM roles WHERE", "1=1">>

\* the rules that are active for the inbound payload, in the order in which
\* handler.conditions declares them
activeRules == SelectSeq([n \in DOMAIN rules |-> n], LAMBDA n : active(n))

\* the fragment of rule n for the inbound payload
fragmentOf(n) ==
    LET f == rules[n].field
        operator == rules[n].operator
    IN  CASE operator = "IN" ->
                 f \o " IN (" \o parameterList(f, Len(get(request.body, f).items)) \o ")"
          [] operator \in {"IS NULL", "IS NOT NULL"} -> f \o " " \o operator
          [] operator \in {"=", "LIKE", "ILIKE", ">=", "<=", ">", "<"} ->
                 f \o " " \o operator \o " :" \o f
          [] OTHER -> f \o " = :" \o f

(* C15: for every payload with an active condition, the WHERE text in the query
   passed to findOne is the fragments of the active conditions joined by AND,
   in the order in which handler.conditions declares their fields. *)
C15_FragmentOrder ==
    (answered /\ activeRules # <<>>) =>
        where = replace(requested.handler.query, DynamicConditionsToken,
                        join([i \in DOMAIN activeRules |-> fragmentOf(activeRules[i])],
                             " AND "))

\* access_0 declared before access, both active
C15_Witness ==
    /\ answered
    /\ Len(activeRules) = 2
    /\ rules[1].field = "access_0"
    /\ rules[2] = [field |-> "access", operator |-> "IN"]
    /\ where = <<"SELECT id FROM roles WHERE",
                 "access_0 = :access_0 AND access IN (:access_0, :access_1)">>

-----------------------------------------------------------------------------
\* the spec document the tool compiles, and its module file once written
compiled == jsonFiles[1][1]
written == {f \in outFiles : f.path = outputPath(compiled)}

\* the payload keys of a route, in their order
payloadKeys(route) == [n \in DOMAIN route.payload |-> route.payload[n].key]

(* C16, as claimed: a route that is not a findOne route compiles to a handler
   registered under the route's declared HTTP method, lower-cased, on the
   route's path under the prefix /{module}/{version}, that calls findOneById
   with the names of the :name segments of the path, in path order, followed by
   the route's query. *)
C16_RegisteredUnderDeclaredMethod ==
    \A f \in written : \A n \in DOMAIN compiled.routes :
        LET route == compiled.routes[n]
            emitted == f.text.routes[n]
            pathParams == extractPathParams(route.path)
        IN  route.handler.requestType # "findOne" =>
                /\ emitted.verb = toLowerCase(route.method)
                /\ emitted.path = route.path
                /\ f.text.prefix = <<"/">> \o compiled.module \o <<"/">> \o compiled.version
                /\ emitted.call = "findOneById"
                /\ emitted.callArgs = [i \in DOMAIN pathParams |-> Variable(pathParams[i])]
                                          \o <<Variable("query")>>
                /\ emitted.callQuery = route.handler.query

(* C16, amended: a route that is not a findOne route compiles to a handler
   registered under POST, whatever method the route declares, on the route's
   path under the prefix /{module}/{version}, that calls findOneById with the
   member of the request body named by the first payload key, followed by the
   route's query, or with the query alone when the route has no payload key. *)
C16_RegisteredUnderPost ==
    \A f \in written : \A n \in DOMAIN compiled.routes :
        LET route == compiled.routes[n]
            emitted == f.text.routes[n]
            keys == payloadKeys(route)
        IN  route.handler.requestType # "findOne" =>
                /\ emitted.verb = "post"
                /\ emitted.path = route.path
                /\ f.text.prefix = <<"/">> \o compiled.module \o <<"/">> \o compiled.version
                /\ emitted.call = "findOneById"
                /\ emitted.callArgs = IF keys = <<>> THEN <<Variable("query")>>
                                      ELSE <<Member("body", keys[1]), Variable("query")>>
                /\ emitted.callQuery = route.handler.query

\* a GET route on /:id with the payload key id, written as a POST handler that
\* passes body.id
C16_Witness ==
    \E f \in written :
        /\ compiled.routes[1].method = "GET"
        /\ compiled.routes[1].path = <<Literal("/"), Param("id")>>
        /\ compiled.routes[1].handler.requestType = "findOneById"
        /\ f.text.routes[1].verb = "post"
        /\ f.text.routes[1].callArgs = <<Member("body", "id"), Variable("query")>>

(* C17, as claimed: for every :name segment of a route path the options of the
   emitted handler hold a params schema with a member for it; the member named
   id carries format uuid, a member of any other name a description and no
   format. *)
C17_PathParameterSchema ==
    \A f \in written : \A n \in DOMAIN compiled.routes :
        LET emitted == f.text.routes[n]
            pathParams == extractPathParams(compiled.routes[n].path)
        IN  \A i \in DOMAIN pathParams :
                /\ "params" \in DOMAIN emitted.hook
                /\ \E m \in DOMAIN emitted.hook.params :
                       LET member == emitted.hook.params[m]
                       IN  /\ member.key = pathParams[i]
                           /\ member.key = "id" => member.format = Some("uuid")
                           /\ member.key # "id" =>
                                  member.format = None /\ member.description # None

(* C17, amended: whatever :name segments a route path has, the options of the
   emitted handler hold no params schema: they hold the body schema
   {name}PayloadSchema and the detail block only; the members of the body
   schema are the route's payload fields, in their order, and a member that is
   not an array carries format uuid exactly when its payload field has the
   format uuid. *)
C17_BodySchemaOnly ==
    \A f \in written : \A n \in DOMAIN compiled.routes :
        LET route == compiled.routes[n]
            emitted == f.text.routes[n]
            schema == f.text.schemas[n]
        IN  /\ DOMAIN emitted.hook = {"body", "detail"}
            /\ emitted.hook.body = schema.name
            /\ schema.name = <<route.name, "PayloadSchema">>
            /\ [m \in DOMAIN schema.members |-> schema.members[m].key] = payloadKeys(route)
            /\ \A m \in DOMAIN schema.members :
                   route.payload[m].config.type # "Array" =>
                       ("format: \"uuid\"" \in Range(schema.members[m].options)
                            <=> route.payload[m].config.format = Some("uuid"))

\* a route on /:slug/members/:id written with the body schema and the detail
\* block as its only options
C17_Witness ==
    \E f \in written :
        /\ extractPathParams(compiled.routes[1].path) = <<"slug", "id">>
        /\ DOMAIN f.text.routes[1].hook = {"body", "detail"}
        /\ f.text.routes[1].path = compiled.routes[1].path

\* the value of the emitted text "..." : the text between the quotes
stringValue(tokens) == join(SubSeq(tokens, 2, Len(tokens) - 1), "")

\* the values of the string literals of an emitted array, from the text that
\* follows its opening bracket
RECURSIVE elementValues(_)
elementValues(tokens) ==
    IF Head(tokens) = "]" THEN <<>>
    ELSE IF Head(tokens) = ", " THEN elementValues(Tail(tokens))
    ELSE LET rest == Tail(tokens)
             close == CHOOSE i \in DOMAIN rest :
                          /\ rest[i] = "\""
                          /\ \A j \in 1..(i - 1) : rest[j] # "\""
         IN  <<join(SubSeq(rest, 1, close - 1), "")>>
                 \o elementValues(SubSeq(rest, close + 1, Len(rest)))

\* the value of the emitted text [ "...", ... ]
arrayValue(tokens) == elementValues(Tail(tokens))

(* C18: every emitted handler, with or without path parameters, with or without
   payload, findOne or not, carries a detail block whose summary, description
   and tags have the values of the route's openapi metadata. *)
C18_DetailCopiedFromOpenapi ==
    \A f \in written : \A n \in DOMAIN compiled.routes :
        LET openapi == compiled.routes[n].openapi
            emitted == f.text.routes[n]
        IN  /\ "detail" \in DOMAIN emitted.hook
            /\ stringValue(emitted.hook.detail.summary) = openapi.summary
            /\ stringValue(emitted.hook.detail.description) = openapi.description
            /\ arrayValue(emitted.hook.detail.tags) = openapi.tags

\* a constraint as the constraint object writes it: name: "text", or name: number
quoted(name, option) == <<name \o ": \"" \o Value(option) \o "\"">>
plain(name, option) == <<name \o ": " \o ToString(Value(option))>>

\* the constraints of a FieldSpec in the order format, description, minimum,
\* maximum, minLength, maxLength, format and description being listed when
\* listed(_) says so, the others when present
constraints(field, listed(_)) ==
       (IF listed(field.format) THEN quoted("format", field.format) ELSE <<>>)
    \o (IF listed(field.description)
        THEN quoted("description", field.description) ELSE <<>>)
    \o (IF field.minimum # None THEN plain("minimum", field.minimum) ELSE <<>>)
    \o (IF field.maximum # None THEN plain("maximum", field.maximum) ELSE <<>>)
    \o (IF field.minLength # None THEN plain("minLength", field.minLength) ELSE <<>>)
    \o (IF field.maxLength # None THEN plain("maxLength", field.maxLength) ELSE <<>>)

\* the members of the schema constants of the written module that are not
\* arrays are as the list of constraints says
membersHave(listed(_)) ==
    \A f \in written : \A n \in DOMAIN compiled.routes :
        \A m \in DOMAIN compiled.routes[n].payload :
            LET field == compiled.routes[n].payload[m].config
                member == f.text.schemas[n].members[m]
                expected == constraints(field, listed)
            IN  field.type # "Array" =>
                    /\ member.key = compiled.routes[n].payload[m].key
                    /\ member.options = expected
                    /\ member.argument =
                           IF expected = <<>> THEN "{}"
                           ELSE "{\n        " \o join(expected, ",\n        ")
                                    \o "\n      }"
                    /\ member.wrapped <=> field.optional = Some(TRUE)

present(option) == option # None
presentAndNotEmpty(option) == option # None /\ Value(option) # ""

(* C19, as claimed: for every non-array field the emitted constraint object
   lists exactly the constraints present on the FieldSpec, in the order format,
   description, minimum, maximum, minLength, maxLength; an empty set renders as
   {}; the member is wrapped in t.Optional exactly when optional is true. *)
C19_ConstraintsPresent == membersHave(present)

(* C19, amended: as claimed, a format or description that is the empty string
   counting as absent. *)
C19_ConstraintsPresentAndNotEmpty == membersHave(presentAndNotEmpty)

\* an optional field with format, an empty description, minimum, maximum and
\* maxLength, written with its four constraints in order inside t.Optional
C19_Witness ==
    \E f \in written :
        /\ compiled.routes[1].payload # <<>>
        /\ compiled.routes[1].payload[1].config =
               FieldSpec("String", Some(TRUE), Some("uuid"), Some(""), Some(0),
                         Some(10), None, Some(36), None)
        /\ f.text.schemas[1].members[1].wrapped
        /\ f.text.schemas[1].members[1].options =
               <<"format: \"uuid\"", "minimum: 0", "maximum: 10", "maxLength: 36">>

-----------------------------------------------------------------------------
\* the line number of the last line of a file that is an import of a path
\* ending in routes, 0 when there is none
lastRouteImport(lines) == Max({i \in DOMAIN lines : importMatch(lines[i])})

\* a file without its line i
without(lines, i) == SubSeq(lines, 1, i - 1) \o SubSeq(lines, i + 1, Len(lines))

(* C20: when the file has no import of the spec's variable, the upsert inserts
   the import statement so that the lines of the file up to its last
   route-import line, and no other line of it, come before the import (the
   import is the first of them when the file has no route import), and every
   other line keeps its place relative to the others: without the inserted
   import, and without the registration line when one was inserted as well, the
   file is as it was. *)
C20_ImportInsertedAfterLastImport ==
    LET before == lastUpsert.before
        after == lastUpsert.after
        v == generateRouteVariableName(lastUpsert.config)
        last == lastRouteImport(before)
    IN  (upsertDone /\ importLines(before, v) = <<>>) =>
            \E j \in DOMAIN after :
                /\ after[j] = generateImportStatement(lastUpsert.config)
                /\ \/ without(after, j) = before /\ j = last + 1
                   \/ \E i \in DOMAIN without(after, j) :
                          /\ without(after, j)[i] = UseLine(v)
                          /\ without(without(after, j), i) = before
                          /\ j = last + 1 + (IF i < j THEN 1 ELSE 0)

\* an import inserted between the last route import and the lines after it
C20_Witness ==
    /\ upsertDone /\ lastUpsert.wrote
    /\ importLines(lastUpsert.before, generateRouteVariableName(lastUpsert.config)) = <<>>
    /\ lastRouteImport(lastUpsert.before) >= 1
    /\ lastRouteImport(lastUpsert.before) < Len(lastUpsert.before)
    /\ lastUpsert.after[lastRouteImport(lastUpsert.before) + 1] =
           generateImportStatement(lastUpsert.config)
    /\ lastUpsert.after[lastRouteImport(lastUpsert.before)] =
           lastUpsert.before[lastRouteImport(lastUpsert.before)]

-----------------------------------------------------------------------------
\* the registration of v is line j of the file, right after a line that has
\* .use( and Routes, no such line following it, and the other lines are those
\* of the file before, with or without an import of v inserted
registeredAfterLastAnchor(before, after, v) ==
    \E j \in DOMAIN after :
        /\ after[j] = UseLine(v)
        /\ j > 1
        /\ isUseOfRoutes(after[j - 1])
        /\ \A i \in (j + 1)..Len(after) : ~isUseOfRoutes(after[i])
        /\ \/ without(after, j) = before
           \/ \E i \in DOMAIN without(after, j) :
                  /\ importMatch(without(after, j)[i])
                  /\ without(after, j)[i].var = v
                  /\ without(without(after, j), i) = before

(* C21, as claimed: when the file has no registration of the spec's variable,
   the upsert inserts the registration call as the line right after the last
   line that contains both .use( and Routes, also when it inserted an import
   line in the same operation. *)
C21_RegistrationInserted ==
    LET v == generateRouteVariableName(lastUpsert.config)
    IN  (upsertDone /\ useLines(lastUpsert.before, v) = <<>>) =>
            registeredAfterLastAnchor(lastUpsert.before, lastUpsert.after, v)

(* C21, amended: the same when the file has a line that contains both .use( and
   Routes; when it has none, no registration call is inserted. *)
C21_RegistrationInsertedAfterAnchor ==
    LET v == generateRouteVariableName(lastUpsert.config)
    IN  (upsertDone /\ useLines(lastUpsert.before, v) = <<>>) =>
            IF hasAnchor(lastUpsert.before)
            THEN registeredAfterLastAnchor(lastUpsert.before, lastUpsert.after, v)
            ELSE useLines(lastUpsert.after, v) = <<>>

\* the registration inserted after .use(authRoutes) and before .use(cors), the
\* import inserted above both in the same upsert
C21_Witness ==
    /\ upsertDone /\ lastUpsert.wrote
    /\ lastUpsert.before =
           <<ImportLine(authRoutes, <<"./core/auth/auth", ".routes">>),
             UseLine(authRoutes), UseLine(corsPlugin)>>
    /\ lastUpsert.after =
           <<ImportLine(authRoutes, <<"./core/auth/auth", ".routes">>),
             generateImportStatement(lastUpsert.config),
             UseLine(authRoutes),
             UseLine(generateRouteVariableName(lastUpsert.config)),
             UseLine(corsPlugin)>>

-----------------------------------------------------------------------------
(* C22 *)

\* two spec documents name the same module and version
sameSpec(a, b) == a.module = b.module /\ a.version = b.version

\* generate moves from spec N to spec N+1 only out of the last step of spec N
C22_NextAfterLastStep ==
    \A p \in Procs :
        (mode[p] = "generate" /\ k[p] >= 1 /\ k'[p] # k[p] /\ pc'[p] = "readSpec")
            => /\ k'[p] = k[p] + 1
               /\ pc[p] \in {"writeModule", "readIndex", "writeIndex"}
               /\ sameSpec(lastUpsert'.config, jsonFiles[p][k[p]])
               /\ moduleFile(jsonFiles[p][k[p]]).path \in
                      {f.path : f \in outFiles'}

\* C22: generate processes each spec file exactly once, in listing order, every
\* step of spec N (write module, read aggregator, write aggregator) is over
\* before a step of spec N+1 begins, and the upsert of spec N+1 parses the
\* aggregator text that the upsert of spec N wrote
C22_SequentialBatch ==
    /\ [][C22_NextAfterLastStep]_vars
    /\ [](\A p \in Procs :
            mode[p] = "generate" /\ pc[p] \in IOPcs \ {"readdir"}
                => /\ visited[p] = 1..k[p]
                   /\ (pc[p] = "readIndex" /\ k[p] >= 2)
                          => /\ sameSpec(lastUpsert.config, jsonFiles[p][k[p] - 1])
                             /\ ~lastUpsert.missing
                             /\ index.lines = lastUpsert.after)
    /\ [](\A i \in DOMAIN log :
            log[i].mode = "generate" /\ log[i].exit = 0 /\ log[i].failure.op = "none"
                => log[i].visited = DOMAIN log[i].specs)

\* the second spec of a batch is about to be upserted into the text the first
\* upsert wrote
C22_Witness ==
    \E p \in Procs :
        /\ mode[p] = "generate" /\ pc[p] = "readIndex" /\ k[p] = 2
        /\ lastUpsert.wrote
        /\ index.lines = lastUpsert.after
        /\ sameSpec(lastUpsert.config, jsonFiles[p][1])

-----------------------------------------------------------------------------
(* C23 *)

\* rule n is a LIKE or an ILIKE rule
likeRule(n) == rules[n].operator \in {"LIKE", "ILIKE"}

\* the statement of a LIKE or ILIKE rule runs on a payload whose field is
\* undefined or null
likeStepNotGiven ==
    /\ hpc = "conditions"
    /\ step \in DOMAIN rules
    /\ likeRule(step)
    /\ get(payload, rules[step].field) \in {Undefined, Null}
    /\ step' = step + 1

(* C23: for a LIKE (ILIKE) rule on field f, when payload.f is defined and not
   null the fragment f LIKE :f (f ILIKE :f) is appended and the final payload
   passed to findOne holds under f the value wrapped as %value%, not the
   unwrapped value; when payload.f is undefined or null the statement appends
   nothing and leaves payload.f as it was. *)
C23_LikeBindsWrapped ==
    /\ [](answered =>
            \A n \in DOMAIN rules :
                (likeRule(n) /\ active(n)) =>
                    LET f == rules[n].field
                        value == get(request.body, f)
                    IN  /\ occurrences(whereConditions,
                                       f \o " " \o rules[n].operator \o " :" \o f) = 1
                        /\ get(bound, f) = Str("%" \o text(value) \o "%")
                        /\ get(bound, f) # value)
    /\ [][likeStepNotGiven =>
              /\ whereConditions' = whereConditions
              /\ queryParams' = queryParams
              /\ payload' = payload]_vars

-----------------------------------------------------------------------------
(* C24 *)

\* rule n is an IS NULL or an IS NOT NULL rule
nullRule(n) == rules[n].operator \in {"IS NULL", "IS NOT NULL"}

\* the statement of an IS NULL (IS NOT NULL) rule runs on a payload whose field
\* is not null (is not the sentinel)
nullStepOtherCase ==
    /\ hpc = "conditions"
    /\ step \in DOMAIN rules
    /\ nullRule(step)
    /\ get(payload, rules[step].field) #
           (IF rules[step].operator = "IS NULL" THEN Null ELSE Str("NOT_NULL"))
    /\ step' = step + 1

(* C24: for an IS NULL (IS NOT NULL) rule on field f the fragment f IS NULL
   (f IS NOT NULL) is appended exactly when payload.f is null (is the NOT_NULL
   sentinel); then the final payload passed to findOne has no key f, no
   parameter being bound for f; in every other case the statement of the rule
   leaves the payload unchanged. *)
C24_NullConditions ==
    /\ [](answered =>
            \A n \in DOMAIN rules :
                nullRule(n) =>
                    LET f == rules[n].field
                    IN  /\ occurrences(whereConditions, f \o " " \o rules[n].operator)
                               = (IF active(n) THEN 1 ELSE 0)
                        /\ active(n) => f \notin DOMAIN bound)
    /\ [][nullStepOtherCase =>
              /\ whereConditions' = whereConditions
              /\ queryParams' = queryParams
              /\ payload' = payload]_vars

-----------------------------------------------------------------------------
(* C25 *)

\* every builder import line of the aggregator file designates a module file
\* that is in the output directory
designated(ix, files) ==
    ix.exists =>
        \A i \in DOMAIN ix.lines :
            isBuilderImport(ix.lines[i]) =>
                \E c \in AllSpecs :
                    /\ ix.lines[i].path = generateImportStatement(c).path
                    /\ \E f \in files : f.path = outputPath(c)

(* C25, as claimed: wherever a generate or clean run stops, by success or by
   the failure of a step, every builder import line of the aggregator file
   designates a module file that exists in the output directory, when that was
   so as the run started. *)
C25_ImportsDesignateModules ==
    \A i \in DOMAIN log :
        designated(log[i].before, log[i].filesBefore)
            => designated(log[i].after, log[i].filesAfter)

(* C25, amended: the same wherever a generate run stops, by success or by
   failure, and where a clean run stops by success; a clean run that fails
   leaves the aggregator file as it was when the run started. *)
C25_ImportsDesignateModulesUnlessCleanFails ==
    \A i \in DOMAIN log :
        designated(log[i].before, log[i].filesBefore) =>
            /\ (log[i].mode = "generate" \/ log[i].exit = 0)
                   => designated(log[i].after, log[i].filesAfter)
            /\ (log[i].mode = "clean" /\ log[i].exit # 0)
                   => log[i].after = log[i].before

\* a generate run has stopped by a failure after it patched the aggregator
\* file for its first spec, and a clean run has stopped by a failure after it
\* removed a module
C25_Witness ==
    /\ Len(log) = 2
    /\ log[1].mode = "generate" /\ log[1].exit = 1
    /\ builderVars(log[1].before.lines) = {}
    /\ builderVars(log[1].after.lines) # {}
    /\ designated(log[1].after, log[1].filesAfter)
    /\ log[2].mode = "clean" /\ log[2].exit = 1
    /\ log[2].filesAfter # log[2].filesBefore
    /\ ~designated(log[2].after, log[2].filesAfter)

-----------------------------------------------------------------------------
(* C26 *)

\* each variable has at most one import line and at most one registration line
wiredOnce(lines) ==
    \A v \in {lines[i].var : i \in DOMAIN lines} :
        /\ Len(importLines(lines, v)) <= 1
        /\ Len(useLines(lines, v)) <= 1

\* the aggregator file as the first run of the tool found it
firstIndex == IF log = <<>> THEN runStart[1].index ELSE log[1].before

(* C26: when the aggregator file has at most one import line and at most one
   registration line per variable before the first run, it has at most one of
   each per variable at every step of every later generate and clean run. *)
C26_NoDuplicateWiring ==
    (pc[1] # "idle" /\ firstIndex.exists /\ wiredOnce(firstIndex.lines))
        => wiredOnce(index.lines)

\* two generate runs have upserted two specs of one variable (roles v1 and
\* roles V1) into a file that did not import it: it is imported and registered
\* once
C26_Witness ==
    /\ Len(log) = 2
    /\ \A i \in DOMAIN log : log[i].mode = "generate" /\ log[i].exit = 0
    /\ Len(log[1].specs) = 2
    /\ generateRouteVariableName(log[1].specs[1]) =
           generateRouteVariableName(log[1].specs[2])
    /\ wiredOnce(log[1].before.lines)
    /\ Len(importLines(index.lines, generateRouteVariableName(log[1].specs[1]))) = 1
    /\ Len(useLines(index.lines, generateRouteVariableName(log[1].specs[1]))) = 1
    /\ Len(importLines(log[1].before.lines,
                       generateRouteVariableName(log[1].specs[1]))) = 0

-----------------------------------------------------------------------------
(* C27 *)

\* a clean run has read the aggregator file and goes on to write it
cleanGoesToWrite ==
    \E p \in Procs :
        /\ mode[p] = "clean"
        /\ pc[p] = "cleanReadIndex"
        /\ pc'[p] = "cleanWriteIndex"

(* C27: a clean run directly after a successful clean run leaves the aggregator
   file and the output directory as they were, and a clean run on an aggregator
   file without a builder import does not write the file. *)
C27_CleanIdempotent ==
    /\ [](\A i \in DOMAIN log :
            (/\ i > 1
             /\ log[i].mode = "clean"
             /\ log[i - 1].mode = "clean"
             /\ log[i - 1].exit = 0)
                => /\ log[i].after = log[i - 1].after
                   /\ log[i].filesAfter = log[i - 1].filesAfter
                   /\ log[i].dirsAfter = log[i - 1].dirsAfter)
    /\ [][cleanGoesToWrite => builderVars(index.lines) # {}]_vars
    /\ [][(\E p \in Procs : mode[p] = "clean" /\ pc[p] # "cleanWriteIndex")
              => index' = index]_vars

\* a successful clean run that removed modules and lines of the aggregator
\* file, and a second successful clean run after it
C27_Witness ==
    /\ Len(log) = 2
    /\ log[1].mode = "clean" /\ log[1].exit = 0
    /\ log[2].mode = "clean" /\ log[2].exit = 0
    /\ log[1].filesAfter # log[1].filesBefore
    /\ log[1].after # log[1].before
    /\ log[2].after = log[1].after
    /\ log[2].filesAfter = {}

-----------------------------------------------------------------------------
(* C28 *)

\* the named placeholders of the dynamic WHERE text
placeholders == Range(parameterMatches(dynamicWhere(whereConditions), 1))

\* rule n is an IN, IS NULL or IS NOT NULL rule whose statement handled the
\* field of the inbound payload
handled(n) == rules[n].operator \in {"IN", "IS NULL", "IS NOT NULL"} /\ active(n)

(* C28: for every conditions map and every inbound payload, each named
   placeholder of the dynamic WHERE text (:f, or :f_i for IN) is a key of the
   final payload passed to findOne, with a value that is neither null nor
   undefined, and no field handled by an IN, IS NULL or IS NOT NULL statement
   remains as a key. *)
C28_PlaceholderCoverage ==
    answered =>
        /\ \A name \in placeholders :
               /\ name \in DOMAIN bound
               /\ bound[name] \notin {Null, Undefined}
        /\ \A n \in DOMAIN rules : handled(n) => rules[n].field \notin DOMAIN bound

-----------------------------------------------------------------------------
(* C29 *)

\* the handler of a dynamic-filter route has called findOne, every guard of
\* its conditions was false, and the base query has no placeholder outside of
\* the template token
filterFree ==
    /\ answered
    /\ \A n \in DOMAIN rules : ~active(n)
    /\ parameterMatches(
           queryString(replace(requested.handler.query, DynamicConditionsToken, "")),
           1) = <<>>

(* C29: when every condition guard of a dynamic-filter route is false and the
   base query has no placeholder outside the token, findOne's input validation
   does not reject the payload and the query, whose WHERE text is 1=1, that the
   handler passes to it. *)
C29_FilterFreeAccepted ==
    /\ [](filterFree => validate(call.args[1], call.args[2]) = "none")
    /\ [][(filterFree /\ hpc' # hpc) => hpc' # "rejected"]_vars

-----------------------------------------------------------------------------
(* C30 *)

\* rule n is an active LIKE or ILIKE rule whose raw value is a string that
\* passes findOne's parameter format check
likeGiven(n) ==
    /\ likeRule(n)
    /\ active(n)
    /\ get(request.body, rules[n].field).type = "string"
    /\ parameterFormat(get(request.body, rules[n].field).s)

(* C30: for an active LIKE or ILIKE condition whose raw value is a string that
   passes findOne's parameter format check, the value bound by the handler,
   the raw value wrapped as %value%, passes the format check too, and findOne
   does not reject the lookup for the format of a parameter. *)
C30_LikeBindingAccepted ==
    answered =>
        \A n \in DOMAIN rules :
            likeGiven(n) =>
                /\ get(bound, rules[n].field).type = "string"
                /\ parameterFormat(get(bound, rules[n].field).s)
                /\ validate(call.args[1], call.args[2]) # "Invalid format for parameter"


====
